---- MODULE Spec2Model ----
(***************************************************************************)
(* Character scene creator: the layer order, the transform maps, the saved *)
(* scenes (src/App.tsx), the layer manager and the stage (Canvas, in       *)
(* src/unnamed/part_001), the scene builder (src/components/               *)
(* ControlsPanel.tsx) and the generation service (src/unnamed/part_000).   *)
(*                                                                         *)
(* Spec    : the editing state machine of App over a filled library.       *)
(* SpecGen : one call of generateScene / generateImageFromInput, stepped   *)
(*           through parse, per-character preprocessing, prompt assembly   *)
(*           and the request.                                              *)
(***************************************************************************)
EXTENDS Naturals, Integers, Sequences, FiniteSets, TLC

(***************************************************************************)
(* Bounds and value universes                                              *)
(***************************************************************************)
Ids == {"a", "b", "c"}              \* character ids that can exist
MaxScenes == 1                      \* saved scenes kept at a time
SceneIdOf(i) == CASE i = 1 -> "s1" [] i = 2 -> "s2" [] OTHER -> "s3"
SceneIds == {SceneIdOf(i) : i \in 1..MaxScenes}   \* what crypto.randomUUID hands out
SceneNames == {"n1", "n2"}          \* names typed into the save field
RotVals == {90}                     \* angles a rotate gesture reports
MaxGenChars == 3                    \* characters passed to one generateScene call

Null == "null"                      \* JavaScript null / undefined
DefaultPrompt == "Two characters having a picnic in a sunny park."
Prompts == {DefaultPrompt, "p1"}
SaveError == "Add characters to save a scene."

\* Canvas: { x: width / 2 - 100, y: height / 2 - 100 } of an 800 x 600 stage
Center == [x |-> 300, y |-> 200]
Moved == [x |-> 10, y |-> 20]
PosVals == {Moved}

NameOf(id) == CASE id = "a" -> "A" [] id = "b" -> "B" [] id = "c" -> "C" [] OTHER -> "D"
Character(id) == [id |-> id, name |-> NameOf(id)]

VARIABLES
    characters,             \* App: Character[] (the library)
    selectedCharacterIds,   \* App: string[] (layer order, index 1 = furthest back)
    characterRotations,     \* App: Record<string, number>
    characterPositions,     \* App: Record<string, {x, y}>
    scenes,                 \* App: Scene[]
    currentSceneId,         \* App: string | null
    scenePrompt,            \* App: string
    error,                  \* App: string | null
    generatedContent,       \* App: GeneratedContent | null
    isLoading,              \* App: boolean
    isSaving,               \* SceneBuilder: the save field is open
    observed,               \* history: the handlers this specification records
    lastOp                  \* history: the recorded handler that ran last, or "other"

appVars == <<characters, selectedCharacterIds, characterRotations,
             characterPositions, scenes, currentSceneId, scenePrompt, error,
             generatedContent, isLoading, isSaving, observed, lastOp>>

VARIABLES
    gPc,            \* position in the call: parse, images, assemble, await, done
    gFn,            \* "generateScene" or "generateImageFromInput"
    gInput,         \* the raw prompt string (scenePrompt / input)
    gHasOnProgress, \* an onProgress callback was passed
    gCharacters,    \* generateScene's characters, back to front
    gRotations,     \* generateScene's rotations
    gFinalPrompt,   \* finalPrompt / prompt after the parse
    gTransparent,   \* explicitTransparent / the flag generateImageFromInput saw
    gMime,          \* outputMimeType (generateImageFromInput)
    gProgress,      \* captions passed to onProgress
    gThrown,        \* an exception left the parse block
    gIdx,           \* loop position in characters (1-based)
    gInFlight,      \* indexes whose processCharacterImage promise is pending
    gParts,         \* parts pushed so far
    gNarration,     \* layerDescriptions, one fragment per character
    gFullPrompt,    \* the prompt text, as its segments in order
    gRequest,       \* what was handed to the generation operation
    gResult         \* how the call ended

genVars == <<gPc, gFn, gInput, gHasOnProgress, gCharacters, gRotations,
             gFinalPrompt, gTransparent, gMime, gProgress, gThrown, gIdx,
             gInFlight, gParts, gNarration, gFullPrompt, gRequest, gResult>>

VARIABLES
    imgPc,          \* processCharacterImage: "pending" until the promise resolves
    imgWidth,       \* img.width of the decoded source
    imgHeight,      \* img.height of the decoded source
    imgRotation,    \* rotation, in degrees
    imgScaled,      \* width and height after the resize step
    imgResult       \* what the promise resolved with, and its pixel size

imgVars == <<imgPc, imgWidth, imgHeight, imgRotation, imgScaled, imgResult>>

VARIABLES
    calls           \* SceneBuilder.handleGenerate: its invocations, oldest first

VARIABLES
    imports,        \* Sidebar.handleImportClick: file imports whose read is pending
    selectedId,     \* Canvas: id of the character picked on the stage, or null
    gestures,       \* TransformableCharacter: isDragging / isRotating per mounted id
    buttons         \* the mouse buttons held down

uiVars == <<imports, selectedId, gestures, buttons>>

svcVars == <<genVars, imgVars, calls, uiVars>>

vars == <<appVars, genVars, imgVars, calls, uiVars>>

(***************************************************************************)
(* Helpers: arrays and records of the source                               *)
(***************************************************************************)
Range(s) == {s[i] : i \in DOMAIN s}

NoDup(s) == \A i, j \in DOMAIN s : i # j => s[i] # s[j]

RECURSIVE Filter(_, _)
\* Array.prototype.filter with the predicate "element is in keep"
Filter(s, keep) ==
    IF s = <<>> THEN <<>>
    ELSE (IF Head(s) \in keep THEN <<Head(s)>> ELSE <<>>) \o Filter(Tail(s), keep)

Reverse(s) == [i \in 1..Len(s) |-> s[Len(s) + 1 - i]]

\* Array.prototype.findIndex on ids, 1-based; 0 stands for -1
FindIndex(s, id) ==
    IF \E i \in DOMAIN s : s[i] = id
    THEN CHOOSE i \in DOMAIN s : s[i] = id /\ \A j \in 1..(i - 1) : s[j] # id
    ELSE 0

\* splice(i, 1): remove the element at i
SpliceOut(s, i) == [k \in 1..(Len(s) - 1) |-> IF k < i THEN s[k] ELSE s[k + 1]]

\* splice(i, 0, e): insert e so that it lands at index i (clamped to the end)
SpliceIn(s, i, e) ==
    LET at == IF i > Len(s) + 1 THEN Len(s) + 1 ELSE i
    IN  [k \in 1..(Len(s) + 1) |->
            IF k < at THEN s[k] ELSE IF k = at THEN e ELSE s[k - 1]]

\* an updater that forgets to spread prev: { [id]: v }
SetKeyAlone(m, id, v) == [k \in {id} |-> v]

\* { ...prev, [id]: v }
SetKey(m, id, v) == [k \in (DOMAIN m) \cup {id} |-> IF k = id THEN v ELSE m[k]]

EmptyMap == [k \in {} |-> 0]

\* what lastOp records for a handler
Tag(op) == IF op \in observed THEN op ELSE "other"

LibraryIds == {characters[i].id : i \in DOMAIN characters}

\* selectedCharacterIds.map(id => characters.find(c => c.id === id)).filter(defined)
SelectedCharactersOf(chars, sel) ==
    Filter(sel, {chars[i].id : i \in DOMAIN chars})

selectedCharacters == SelectedCharactersOf(characters, selectedCharacterIds)

\* Canvas.renderContent: the interactive stage (and so containerRef) is mounted
\* only when nothing else is shown and at least one character is selected
StageRendered(loading, err, content, selChars) ==
    /\ ~loading
    /\ err = Null
    /\ content = Null
    /\ Len(selChars) > 0

\* Canvas effect on [selectedCharacters.length]: centre the characters that have
\* no position yet; runs after the render that follows a handler
CanvasEffect(newChars, newSel, newPos, newErr, newContent) ==
    LET newSelChars == SelectedCharactersOf(newChars, newSel)
        fire == /\ Len(newSelChars) # Len(selectedCharacters)
                /\ StageRendered(isLoading, newErr, newContent, newSelChars)
        missing == {id \in Range(newSelChars) : id \notin DOMAIN newPos}
    IN  IF fire
        THEN [k \in (DOMAIN newPos) \cup missing |->
                 IF k \in missing THEN Center ELSE newPos[k]]
        ELSE newPos

(***************************************************************************)
(* Generation service: prompt directive, preprocessing, prompt assembly    *)
(***************************************************************************)
Absent == "absent"                  \* a field the JSON object does not have

\* the JSON values the raw prompts below parse to
JsonObjects ==
    [kind : {"object"},
     prompt : {Absent, "", "x"},
     transparent_background : {Absent, "true", "false"},
     progression_text : {Absent, "cap"}]

JsonValues ==
    {[kind |-> "null"], [kind |-> "number"], [kind |-> "string"],
     [kind |-> "array"]} \cup JsonObjects

JsonInvalid == [kind |-> "invalid"]

RECURSIVE Join(_, _)
\* Array.prototype.join
Join(frags, sep) ==
    IF frags = <<>> THEN ""
    ELSE IF Len(frags) = 1 THEN frags[1]
    ELSE frags[1] \o sep \o Join(Tail(frags), sep)

\* JSON.stringify of the values above
Stringify(v) ==
    CASE v.kind = "null" -> "null"
      [] v.kind = "number" -> "42"
      [] v.kind = "string" -> "\"a castle\""
      [] v.kind = "array" -> "[1,2]"
      [] OTHER ->
           LET p == IF v.prompt = Absent THEN <<>>
                    ELSE <<"\"prompt\":\"" \o v.prompt \o "\"">>
               t == IF v.transparent_background = Absent THEN <<>>
                    ELSE <<"\"transparent_background\":" \o v.transparent_background>>
               c == IF v.progression_text = Absent THEN <<>>
                    ELSE <<"\"progression_text\":\"" \o v.progression_text \o "\"">>
           IN  "{" \o Join(p \o t \o c, ",") \o "}"

\* raw prompts: free text, broken JSON, and the JSON texts of JsonValues
RawPrompts ==
    {"a picnic in the park", "{\"prompt\":", ""} \cup {Stringify(v) : v \in JsonValues}

\* JSON.parse: the value whose text raw is, or a SyntaxError
JsonParse(raw) ==
    IF \E v \in JsonValues : Stringify(v) = raw
    THEN CHOOSE v \in JsonValues : Stringify(v) = raw
    ELSE JsonInvalid

\* JavaScript truthiness of a field read from a parsed object
Truthy(x) == x \notin {Absent, "", "false"}

\* json.<field>: undefined on a number, string or array
Prop(json, field) ==
    IF json.kind = "object"
    THEN CASE field = "prompt" -> json.prompt
           [] field = "transparent_background" -> json.transparent_background
           [] OTHER -> json.progression_text
    ELSE Absent

\* catch (e) { } of the parse block: every exception is swallowed
Caught(exception) == TRUE

\* a parse block that reads the flag and the caption before it looks at json.prompt
ParseDirectiveFlagFirst(raw, hasOnProgress) ==
    LET json == JsonParse(raw)
    IN  IF json.kind \in {"invalid", "null"}
        THEN [text |-> raw, transparent |-> FALSE, progress |-> <<>>,
              thrown |-> FALSE]
        ELSE [text |-> IF Truthy(Prop(json, "prompt"))
                       THEN Prop(json, "prompt") ELSE raw,
              transparent |-> Truthy(Prop(json, "transparent_background")),
              progress |-> IF Truthy(Prop(json, "progression_text")) /\ hasOnProgress
                           THEN <<Prop(json, "progression_text")>>
                           ELSE <<>>,
              thrown |-> FALSE]

\* the parse block of generateScene and of generateImageFromInput:
\* try { json = JSON.parse(raw); if (json.prompt) { ... } } catch (e) { }
ParseDirective(raw, hasOnProgress) ==
    LET json == JsonParse(raw)
        fallback(exception) ==
            [text |-> raw, transparent |-> FALSE, progress |-> <<>>,
             thrown |-> ~Caught(exception)]
    IN  IF json.kind = "invalid" THEN fallback("SyntaxError")
        ELSE IF json.kind = "null" THEN fallback("TypeError")
        ELSE IF ~Truthy(Prop(json, "prompt"))
        THEN [text |-> raw, transparent |-> FALSE, progress |-> <<>>,
              thrown |-> FALSE]
        ELSE [text |-> Prop(json, "prompt"),
              transparent |-> Truthy(Prop(json, "transparent_background")),
              progress |-> IF Truthy(Prop(json, "progression_text")) /\ hasOnProgress
                           THEN <<Prop(json, "progression_text")>>
                           ELSE <<>>,
              thrown |-> FALSE]

\* `data:${mime};base64,${data}`
DataUrl(mime, data) == "data:" \o mime \o ";base64," \o data

Mimes == {"image/png", "image/jpeg"}
Datas == {"", "SRC", "CANVAS"}

\* imageUrl values of a character: a data URL, a data URL with no payload, a
\* link, an empty string
ImageUrls ==
    {DataUrl("image/jpeg", "SRC"), DataUrl("image/jpeg", ""),
     "https://example.com/c.png", ""}

\* imageUrl.match(/^data:(.+);base64,(.+)$/): the groups, or no match
MatchDataUrl(url) ==
    IF \E m \in Mimes, d \in Datas : m # "" /\ d # "" /\ DataUrl(m, d) = url
    THEN LET g == CHOOSE g \in Mimes \X Datas : DataUrl(g[1], g[2]) = url
         IN  [matched |-> TRUE, mimeType |-> g[1], data |-> g[2]]
    ELSE [matched |-> FALSE]

\* how the browser can answer new Image() with this src and getContext('2d')
ImageOutcomes(url) ==
    IF url \in {"", DataUrl("image/jpeg", "")}
    THEN {"error"}
    ELSE {"load", "noContext", "error"}

\* a preprocessing that hands back nothing when it cannot draw
ProcessCharacterImageBlankOnFailure(base64Str, outcome) ==
    IF outcome = "load" THEN DataUrl("image/png", "CANVAS") ELSE ""

\* processCharacterImage: what the promise resolves with
ProcessCharacterImage(base64Str, outcome) ==
    IF outcome = "load" THEN DataUrl("image/png", "CANVAS") ELSE base64Str

\* rotations?.[character.id] || 0
RotationOf(rotations, id) == IF id \in DOMAIN rotations THEN rotations[id] ELSE 0

\* the loop body after the await: the part pushed for this character, if any
ImageParts(imageUrl, character, rotation) ==
    LET matches == MatchDataUrl(imageUrl)
    IN  IF matches.matched
        THEN <<[kind |-> "image", mimeType |-> matches.mimeType,
                data |-> matches.data, char |-> character.id,
                rotation |-> IF matches.data = "CANVAS" THEN rotation ELSE 0]>>
        ELSE <<>>

\* a description that names the neighbours the wrong way round
LayerDescriptionSwapped(chars, index) ==
    IF index = 1 THEN chars[index].name \o " is in the background"
    ELSE IF index = Len(chars) THEN chars[index].name \o " is in the foreground"
    ELSE chars[index].name \o " is behind " \o chars[index - 1].name
             \o " and in front of " \o chars[index + 1].name

\* characters.map((char, index) => ...) of the layering instruction
LayerDescription(chars, index) ==
    IF index = 1 THEN chars[index].name \o " is in the background"
    ELSE IF index = Len(chars) THEN chars[index].name \o " is in the foreground"
    ELSE chars[index].name \o " is behind " \o chars[index + 1].name
             \o " and in front of " \o chars[index - 1].name

\* descriptions listed front to back
LayerDescriptionsFrontFirst(chars) ==
    IF Len(chars) > 1
    THEN [index \in 1..Len(chars) |->
             LayerDescription(chars, Len(chars) + 1 - index)]
    ELSE <<>>

LayerDescriptions(chars) ==
    IF Len(chars) > 1
    THEN [index \in 1..Len(chars) |-> LayerDescription(chars, index)]
    ELSE <<>>

LayeringInstruction(chars) ==
    IF Len(chars) > 1
    THEN "Pay close attention to the layering: "
             \o Join(LayerDescriptions(chars), ". ") \o ". "
    ELSE ""

TransparencyText ==
    " The background should be transparent or solid white to easily isolate the subjects."

\* a template that puts the transparency sentence before the closing instruction
FullPromptTransparencyInside(chars, finalPrompt, explicitTransparent) ==
    <<[kind |-> "count",
       text |-> "Create a new scene featuring the " \o ToString(Len(chars))
                    \o " character(s) from the provided image(s). "],
      [kind |-> "narration", text |-> LayeringInstruction(chars)],
      [kind |-> "directive", text |-> "Scene details: " \o finalPrompt \o ". "]>>
    \o (IF explicitTransparent
        THEN <<[kind |-> "transparency", text |-> TransparencyText]>>
        ELSE <<>>)
    \o <<[kind |-> "preserve",
          text |-> "Maintain the characters' appearance and style as closely as possible."]>>

\* fullPrompt of generateScene, as the pieces of its template in order
FullPrompt(chars, finalPrompt, explicitTransparent) ==
    <<[kind |-> "count",
       text |-> "Create a new scene featuring the " \o ToString(Len(chars))
                    \o " character(s) from the provided image(s). "],
      [kind |-> "narration", text |-> LayeringInstruction(chars)],
      [kind |-> "directive", text |-> "Scene details: " \o finalPrompt \o ". "],
      [kind |-> "preserve",
       text |-> "Maintain the characters' appearance and style as closely as possible."]>>
    \o (IF explicitTransparent
        THEN <<[kind |-> "transparency", text |-> TransparencyText]>>
        ELSE <<>>)

\* prompt of generateImageFromInput, as its pieces in order
ImagePrompt(prompt, transparent) ==
    <<[kind |-> "directive", text |-> prompt]>>
    \o (IF transparent
        THEN <<[kind |-> "transparency", text |-> ", transparent background"]>>
        ELSE <<>>)

\* an output format that ignores the flag
OutputMimeTypeJpegOnly(transparent) == "image/jpeg"

\* outputMimeType of generateImageFromInput
OutputMimeType(transparent) == IF transparent THEN "image/png" ELSE "image/jpeg"

\* the string a sequence of pieces stands for
PromptText(segs) == Join([i \in DOMAIN segs |-> segs[i].text], "")

\* the kinds of the pieces that are not empty, in order
SegmentKinds(segs) ==
    LET kept == SelectSeq(segs, LAMBDA g : g.text # "")
    IN  [i \in DOMAIN kept |-> kept[i].kind]

NoRequest == [fn |-> Null, parts |-> <<>>, outputMimeType |-> Null]

GenIdle ==
    /\ gPc = "idle"
    /\ gFn = Null
    /\ gInput = ""
    /\ gHasOnProgress = FALSE
    /\ gCharacters = <<>>
    /\ gRotations = EmptyMap
    /\ gFinalPrompt = ""
    /\ gTransparent = FALSE
    /\ gMime = Null
    /\ gProgress = <<>>
    /\ gThrown = FALSE
    /\ gIdx = 1
    /\ gInFlight = {}
    /\ gParts = <<>>
    /\ gNarration = <<>>
    /\ gFullPrompt = <<>>
    /\ gRequest = NoRequest
    /\ gResult = Null

(***************************************************************************)
(* processCharacterImage: resize and rotation arithmetic                   *)
(*                                                                         *)
(* width, height and ratio are IEEE 754 doubles. A scaled dimension is     *)
(* kept as its integer part px, its place relative to the integers (kind)  *)
(* and its value in hundredths (centi):                                    *)
(*   "int"   the double is the integer px                                  *)
(*   "below" the double is the largest double below px + 1                 *)
(*   "above" the double is the smallest double above px                    *)
(*   "frac"  any other double between px and px + 1                        *)
(***************************************************************************)
MaxSize == 512                      \* maxSize, as generateScene passes it
MantissaBits == 52                  \* fraction bits of a double

ImgSizes == {100, 392, 512, 700, 768, 784, 1024}    \* img.width / img.height
ImgRotations == {0, 45, 90, 180}                     \* degrees

RECURSIVE Pow2(_)
Pow2(n) == IF n = 0 THEN 1 ELSE 2 * Pow2(n - 1)

\* least t with x <= 2^t
CeilLog2(x) == CHOOSE t \in 0..12 : x <= Pow2(t) /\ (t = 0 \/ Pow2(t - 1) < x)

\* greatest k with 2^k <= x
FloorLog2(x) == CHOOSE k \in 0..12 : Pow2(k) <= x /\ x < Pow2(k + 1)

RECURSIVE PowMod(_, _)
\* 2^e mod x
PowMod(e, x) == IF e = 0 THEN 1 % x ELSE (2 * PowMod(e - 1, x)) % x

\* maxSize / longer: the quotient is rounded to a 53-bit mantissa m; the result
\* is longer * m - 2^(52 + t), the rounding error of the quotient scaled by
\* longer (positive: rounded up), t being CeilLog2(longer)
RatioErr(longer) ==
    LET t == CeilLog2(longer)
        r == PowMod(MantissaBits + t, longer)
    IN  IF 2 * r > longer THEN longer - r ELSE 0 - r

\* side * ratio with ratio = maxSize / longer, each operation rounded to nearest
\* (ties to even)
Scaled(side, longer) ==
    LET n == (MaxSize * side) \div longer
        f == (MaxSize * side) % longer
        d == RatioErr(longer)
        t == CeilLog2(longer)
        centi == (MaxSize * side * 100) \div longer
    IN  IF f # 0 THEN [px |-> n, kind |-> "frac", centi |-> centi]
        ELSE IF d >= 0
        THEN IF n * d <= Pow2(FloorLog2(n) + t - 1)
             THEN [px |-> n, kind |-> "int", centi |-> centi]
             ELSE [px |-> n, kind |-> "above", centi |-> centi]
        ELSE IF n * (0 - d) <= Pow2(CeilLog2(n) + t - 2)
             THEN [px |-> n, kind |-> "int", centi |-> centi]
             ELSE [px |-> n - 1, kind |-> "below", centi |-> centi]

\* img.width / img.height, an integer
Whole(n) == [px |-> n, kind |-> "int", centi |-> 100 * n]

\* a resize step that scales every image to the maximum edge
ResizeAlways(width, height) ==
    LET longer == IF width > height THEN width ELSE height
    IN  [width |-> Scaled(width, longer), height |-> Scaled(height, longer)]

\* the resize step: ratio = Math.min(maxSize / width, maxSize / height) is
\* maxSize / (the longer side)
Resize(width, height) ==
    IF width > MaxSize \/ height > MaxSize
    THEN LET longer == IF width > height THEN width ELSE height
         IN  [width |-> Scaled(width, longer), height |-> Scaled(height, longer)]
    ELSE [width |-> Whole(width), height |-> Whole(height)]

\* |cos|, |sin| of the angle in 1 / 10000; Math.cos(Math.PI / 2) and
\* Math.sin(Math.PI) are not 0 but 1103 and 2206 thousandths of 2^-54
TrigTenThousandths(rotation) ==
    CASE rotation = 0 -> [cos |-> 10000, sin |-> 0, tiny |-> 0]
      [] rotation = 45 -> [cos |-> 7071, sin |-> 7071, tiny |-> 0]
      [] rotation = 90 -> [cos |-> 0, sin |-> 10000, tiny |-> 1103]
      [] OTHER -> [cos |-> 10000, sin |-> 0, tiny |-> 2206]

\* integer part of main * 1 + other * tiny: the sum rounds up to the next integer
\* when main is one step below it and other * tiny is at least half that step
AddTiny(main, other, tiny) ==
    IF main.kind = "below" /\ other.px * tiny >= Pow2(CeilLog2(main.px + 1)) * 1000
    THEN main.px + 1
    ELSE main.px

\* canvas.width = width * cos + height * sin, stored in an unsigned long
\* (canvas.height is the same with width and height exchanged)
CanvasEdge(width, height, rotation) ==
    LET trig == TrigTenThousandths(rotation)
    IN  IF trig.sin = 0 THEN AddTiny(width, height, trig.tiny)
        ELSE IF trig.cos = 0 THEN AddTiny(height, width, trig.tiny)
        ELSE (width.centi * trig.cos + height.centi * trig.sin) \div 1000000

NoRaster == [kind |-> Null, width |-> 0, height |-> 0]

\* no import pending, no character on the stage picked or in a gesture
UiIdle ==
    /\ imports = <<>>
    /\ selectedId = Null
    /\ gestures = EmptyMap
    /\ buttons = {}

ImgIdle ==
    /\ imgPc = "idle"
    /\ imgWidth = 0
    /\ imgHeight = 0
    /\ imgRotation = 0
    /\ imgScaled = [width |-> Whole(0), height |-> Whole(0)]
    /\ imgResult = NoRaster

(***************************************************************************)
(* Init: App after construction with empty local storage                   *)
(***************************************************************************)
InitApp ==
    /\ characters = <<>>
    /\ selectedCharacterIds = <<>>
    /\ characterRotations = EmptyMap
    /\ characterPositions = EmptyMap
    /\ scenes = <<>>
    /\ currentSceneId = Null
    /\ scenePrompt = DefaultPrompt
    /\ error = Null
    /\ generatedContent = Null
    /\ isLoading = FALSE
    /\ isSaving = FALSE
    /\ lastOp = "other"

\* the state Spec starts from: App after the characters a, b and c were saved
\* to the library in this order (SpecXf covers the saving itself)
Init ==
    /\ characters = <<Character("a"), Character("b"), Character("c")>>
    /\ selectedCharacterIds = <<>>
    /\ characterRotations = EmptyMap
    /\ characterPositions = EmptyMap
    /\ scenes = <<>>
    /\ currentSceneId = Null
    /\ scenePrompt = DefaultPrompt
    /\ error = Null
    /\ generatedContent = Null
    /\ isLoading = FALSE
    /\ isSaving = FALSE
    /\ lastOp = "other"
    /\ observed = {}
    /\ ImgIdle
    /\ calls = <<>>
    /\ UiIdle
    /\ GenIdle

(***************************************************************************)
(* App handlers                                                            *)
(***************************************************************************)
\* a select that never deselects
ToggleSelectAppendOnly(prev, id) == Append(prev, id)

\* handleCharacterSelect's updater
ToggleSelect(prev, id) ==
    IF id \in Range(prev) THEN Filter(prev, Range(prev) \ {id}) ELSE Append(prev, id)

\* a select that puts a new id at the start of the sequence (the back)
HandleCharacterSelectPrepend(id) ==
    /\ id \in LibraryIds
    /\ selectedCharacterIds' =
           IF id \in Range(selectedCharacterIds)
           THEN Filter(selectedCharacterIds, Range(selectedCharacterIds) \ {id})
           ELSE <<id>> \o selectedCharacterIds
    /\ characterPositions' =
           CanvasEffect(characters, selectedCharacterIds', characterPositions,
                        error, generatedContent)
    /\ lastOp' = Tag("select")
    /\ UNCHANGED <<characters, characterRotations, scenes, currentSceneId,
                   scenePrompt, error, generatedContent, isLoading, isSaving, observed, svcVars>>

\* Sidebar only lists library characters, so id is in the library
HandleCharacterSelect(id) ==
    /\ id \in LibraryIds
    /\ selectedCharacterIds' = ToggleSelect(selectedCharacterIds, id)
    /\ characterPositions' =
           CanvasEffect(characters, selectedCharacterIds', characterPositions,
                        error, generatedContent)
    /\ lastOp' = Tag("select")
    /\ UNCHANGED <<characters, characterRotations, scenes, currentSceneId,
                   scenePrompt, error, generatedContent, isLoading, isSaving, observed, svcVars>>

\* handleSaveCharacter: the creator modal hands over a character with a new id
HandleSaveCharacter(id) ==
    /\ id \notin LibraryIds
    /\ characters' = Append(characters, Character(id))
    /\ characterPositions' =
           CanvasEffect(characters', selectedCharacterIds, characterPositions,
                        error, generatedContent)
    /\ lastOp' = Tag("saveCharacter")
    /\ UNCHANGED <<selectedCharacterIds, characterRotations, scenes,
                   currentSceneId, scenePrompt, error, generatedContent,
                   isLoading, isSaving, observed, svcVars>>

HandleDeleteCharacter(id) ==
    /\ id \in LibraryIds
    /\ characters' = SelectSeq(characters, LAMBDA c : c.id # id)
    /\ selectedCharacterIds' =
           Filter(selectedCharacterIds, Range(selectedCharacterIds) \ {id})
    /\ characterPositions' =
           CanvasEffect(characters', selectedCharacterIds', characterPositions,
                        error, generatedContent)
    /\ lastOp' = Tag("deleteCharacter")
    /\ UNCHANGED <<characterRotations, scenes, currentSceneId, scenePrompt,
                   error, generatedContent, isLoading, isSaving, observed, svcVars>>

(***************************************************************************)
(* LayerManager (Canvas): drag and drop over the reversed list             *)
(***************************************************************************)
\* LayerManager renders nothing when characters.length <= 1
LayerManagerShown == Len(selectedCharacters) > 1

\* a handleDrop that looks the target up after it has taken the dragged item out
DropResultTargetAfterRemoval(chars, dragged, target) ==
    LET currentCharacters == Reverse(chars)
        draggedIndex == FindIndex(currentCharacters, dragged)
        removed == SpliceOut(currentCharacters, draggedIndex)
        targetIndex == FindIndex(removed, target)
        reordered == SpliceIn(removed, targetIndex, dragged)
    IN  Reverse(reordered)

\* handleDrop's computation: what it passes to onReorder, given the list it renders
DropResult(chars, dragged, target) ==
    LET currentCharacters == Reverse(chars)
        draggedIndex == FindIndex(currentCharacters, dragged)
        targetIndex == FindIndex(currentCharacters, target)
        removed == SpliceOut(currentCharacters, draggedIndex)
        reordered == SpliceIn(removed, targetIndex, dragged)
    IN  Reverse(reordered)

\* a handleDrop that does not test whether the layer was dropped onto itself
DropIgnoredNoSelfTest(chars, dragged, target) ==
    \/ dragged = Null
    \/ FindIndex(chars, dragged) = 0
    \/ FindIndex(chars, target) = 0

\* handleDrop returns before onReorder
DropIgnored(chars, dragged, target) ==
    \/ dragged = Null
    \/ dragged = target
    \/ FindIndex(chars, dragged) = 0
    \/ FindIndex(chars, target) = 0

\* handleCharacterReorder: the new layer order is the ids of what it is given
ReorderIds(reorderedCharacters) == reorderedCharacters

\* handleDrop(targetId) with draggedItemId = dragged, whatever the two ids are:
\* it returns early or reorders through onReorder -> handleCharacterReorder
LayerManagerDrop(dragged, target) ==
    /\ LayerManagerShown
    /\ IF DropIgnored(selectedCharacters, dragged, target)
       THEN /\ UNCHANGED selectedCharacterIds
            /\ lastOp' = Tag("dropIgnored")
       ELSE /\ selectedCharacterIds' =
                   ReorderIds(DropResult(selectedCharacters, dragged, target))
            /\ lastOp' = Tag("drop")
    /\ UNCHANGED <<characters, characterRotations, characterPositions, scenes,
                   currentSceneId, scenePrompt, error, generatedContent,
                   isLoading, isSaving, observed, svcVars>>

\* One drag gesture of the layer list: handleDragStart(dragged) sets
\* draggedItemId, handleDrop(target) reorders through onReorder ->
\* handleCharacterReorder, and dragend clears draggedItemId. The browser delivers
\* no other input during a drag. dragged = Null is a drop with no drag in progress.
HandleDrop(dragged, target) ==
    /\ dragged \in Range(selectedCharacters) \cup {Null}
    /\ target \in Range(selectedCharacters)
    /\ LayerManagerDrop(dragged, target)

(***************************************************************************)
(* Transforms: onRotationChange / onPositionChange from a stage gesture    *)
(***************************************************************************)
OnStage(id) ==
    /\ StageRendered(isLoading, error, generatedContent, selectedCharacters)
    /\ id \in Range(selectedCharacters)

\* an updater that writes into prev (prev[id] = rot; return prev): the object is
\* the one the current scene's record holds after a save or a load
OnRotationChangeInPlace(id, rot) ==
    /\ OnStage(id)
    /\ characterRotations' = SetKey(characterRotations, id, rot)
    /\ scenes' = [i \in DOMAIN scenes |->
                     IF /\ scenes[i].id = currentSceneId
                        /\ scenes[i].rotations = characterRotations
                     THEN [scenes[i] EXCEPT !.rotations = characterRotations']
                     ELSE scenes[i]]
    /\ lastOp' = Tag("rotate")
    /\ UNCHANGED <<characters, selectedCharacterIds, characterPositions,
                   currentSceneId, scenePrompt, error, generatedContent,
                   isLoading, isSaving, observed, svcVars>>

OnRotationChange(id, rot) ==
    /\ OnStage(id)
    /\ characterRotations' = SetKey(characterRotations, id, rot)
    /\ lastOp' = Tag("rotate")
    /\ UNCHANGED <<characters, selectedCharacterIds, characterPositions, scenes,
                   currentSceneId, scenePrompt, error, generatedContent,
                   isLoading, isSaving, observed, svcVars>>

OnPositionChange(id, pos) ==
    /\ OnStage(id)
    /\ characterPositions' = SetKey(characterPositions, id, pos)
    /\ lastOp' = Tag("move")
    /\ UNCHANGED <<characters, selectedCharacterIds, characterRotations, scenes,
                   currentSceneId, scenePrompt, error, generatedContent,
                   isLoading, isSaving, observed, svcVars>>

SetScenePrompt(p) ==
    /\ p # scenePrompt
    /\ scenePrompt' = p
    /\ lastOp' = Tag("prompt")
    /\ UNCHANGED <<characters, selectedCharacterIds, characterRotations,
                   characterPositions, scenes, currentSceneId, error,
                   generatedContent, isLoading, isSaving, observed, svcVars>>

(***************************************************************************)
(* Scenes: save, load, delete, reset                                       *)
(***************************************************************************)
SceneById(id) == CHOOSE sc \in Range(scenes) : sc.id = id

SceneIdsInUse == {scenes[i].id : i \in DOMAIN scenes}

\* SceneBuilder.initiateSave
InitiateSave ==
    /\ ~isSaving
    /\ IF Len(selectedCharacters) = 0
       THEN /\ error' = SaveError
            /\ UNCHANGED isSaving
       ELSE /\ error' = Null
            /\ isSaving' = TRUE
    /\ lastOp' = Tag("initiateSave")
    /\ UNCHANGED <<characters, selectedCharacterIds, characterRotations,
                   characterPositions, scenes, currentSceneId, scenePrompt,
                   generatedContent, isLoading, observed, svcVars>>

\* the Cancel button of the save field
CancelSave ==
    /\ isSaving
    /\ isSaving' = FALSE
    /\ lastOp' = Tag("cancelSave")
    /\ UNCHANGED <<characters, selectedCharacterIds, characterRotations,
                   characterPositions, scenes, currentSceneId, scenePrompt,
                   error, generatedContent, isLoading, observed, svcVars>>

\* the record handleSaveScene builds from the live state
LiveScene(id, name, createdAt) ==
    [id |-> id, name |-> name, characterIds |-> selectedCharacterIds,
     prompt |-> scenePrompt, createdAt |-> createdAt,
     rotations |-> characterRotations, positions |-> characterPositions,
     generatedContent |-> generatedContent]

\* a save that always adds a record, as handleSaveScene did before it tracked
\* the current scene
SaveSceneResultAlwaysNew(name, newId, now) ==
    [scenes |-> <<LiveScene(newId, name, now)>> \o scenes, current |-> newId]

\* handleSaveScene's new list of scenes and current scene id, newId being what
\* crypto.randomUUID returns and now what Date.now() returns
SaveSceneResult(name, newId, now) ==
    LET existing == currentSceneId \in SceneIdsInUse
    IN  IF existing /\ SceneById(currentSceneId).name = name
        THEN [scenes |-> [i \in DOMAIN scenes |->
                             IF scenes[i].id = currentSceneId
                             THEN LiveScene(scenes[i].id, scenes[i].name,
                                            scenes[i].createdAt)
                             ELSE scenes[i]],
              current |-> currentSceneId]
        ELSE [scenes |-> <<LiveScene(newId, name, now)>> \o scenes,
              current |-> newId]

\* the save rewrites the current scene: it is in the list under this name
SavesOverCurrent(name) ==
    /\ currentSceneId \in SceneIdsInUse
    /\ SceneById(currentSceneId).name = name

\* SceneBuilder.confirmSave -> handleSaveScene; limit caps the saved scenes,
\* and an id that crypto.randomUUID hands out is in use nowhere
ConfirmSave(name, newId, now, limit) ==
    /\ isSaving
    /\ SavesOverCurrent(name) \/ newId \notin SceneIdsInUse \cup {currentSceneId}
    /\ LET r == SaveSceneResult(name, newId, now)
       IN  /\ Len(r.scenes) <= limit
           /\ scenes' = r.scenes
           /\ currentSceneId' = r.current
    /\ isSaving' = FALSE
    /\ lastOp' = Tag("saveScene")
    /\ UNCHANGED <<characters, selectedCharacterIds, characterRotations,
                   characterPositions, scenePrompt, error, generatedContent,
                   isLoading, observed, svcVars>>

\* a load that leaves the rotations of the live state in place
HandleLoadSceneKeepRotations(scene) ==
    /\ scene \in Range(scenes)
    /\ selectedCharacterIds' = scene.characterIds
    /\ scenePrompt' = scene.prompt
    /\ generatedContent' = scene.generatedContent
    /\ currentSceneId' = scene.id
    /\ characterPositions' =
           CanvasEffect(characters, selectedCharacterIds', scene.positions,
                        error, generatedContent')
    /\ lastOp' = Tag("loadScene")
    /\ UNCHANGED <<characters, characterRotations, scenes, error, isLoading,
                   isSaving, observed, svcVars>>

\* handleLoadScene on a scene of the list (Sidebar card or the Load... select)
HandleLoadScene(scene) ==
    /\ scene \in Range(scenes)
    /\ selectedCharacterIds' = scene.characterIds
    /\ scenePrompt' = scene.prompt
    /\ characterRotations' = scene.rotations
    /\ generatedContent' = scene.generatedContent
    /\ currentSceneId' = scene.id
    /\ characterPositions' =
           CanvasEffect(characters, selectedCharacterIds', scene.positions,
                        error, generatedContent')
    /\ lastOp' = Tag("loadScene")
    /\ UNCHANGED <<characters, scenes, error, isLoading, isSaving, observed, svcVars>>

\* a delete that leaves the current scene id as it is
HandleDeleteSceneKeepCurrent(id) ==
    /\ id \in SceneIdsInUse
    /\ scenes' = SelectSeq(scenes, LAMBDA sc : sc.id # id)
    /\ lastOp' = Tag("deleteScene")
    /\ UNCHANGED <<characters, selectedCharacterIds, characterRotations,
                   characterPositions, currentSceneId, scenePrompt, error,
                   generatedContent, isLoading, isSaving, observed, svcVars>>

HandleDeleteScene(id) ==
    /\ id \in SceneIdsInUse
    /\ scenes' = SelectSeq(scenes, LAMBDA sc : sc.id # id)
    /\ currentSceneId' = IF currentSceneId = id THEN Null ELSE currentSceneId
    /\ lastOp' = Tag("deleteScene")
    /\ UNCHANGED <<characters, selectedCharacterIds, characterRotations,
                   characterPositions, scenePrompt, error, generatedContent,
                   isLoading, isSaving, observed, svcVars>>

HandleResetScene ==
    /\ selectedCharacterIds' = <<>>
    /\ scenePrompt' = DefaultPrompt
    /\ characterRotations' = EmptyMap
    /\ characterPositions' = EmptyMap
    /\ currentSceneId' = Null
    /\ generatedContent' = Null
    /\ error' = Null
    /\ lastOp' = Tag("resetScene")
    /\ UNCHANGED <<characters, scenes, isLoading, isSaving, observed, svcVars>>

(***************************************************************************)
(* Imports: Sidebar.handleImportClick and the App handlers it ends in      *)
(***************************************************************************)
MaxImports == 2                     \* file imports whose read is pending at a time

IdsOf(records) == [i \in DOMAIN records |-> records[i].id]

\* handleImportClick(type) and the choice of a file: input.onchange keeps the
\* onImportCharacter / onImportScene props of the render of the click, and with
\* them the `characters` and `scenes` those handlers test; readJsonFile is
\* awaited, so other events run before the handler does
ImportClick(type) ==
    /\ Len(imports) < MaxImports
    /\ imports' = Append(imports, [type |-> type, characterIds |-> LibraryIds,
                                    sceneIds |-> SceneIdsInUse])
    /\ UNCHANGED <<appVars, genVars, imgVars, calls, selectedId, gestures, buttons>>

\* prev.map(x => x.id === record.id ? record : x)
ReplaceById(prev, record) ==
    [i \in DOMAIN prev |-> IF prev[i].id = record.id THEN record ELSE prev[i]]

\* the read of import k has finished with a single character:
\* handleImportCharacter of the render the import was started from
HandleImportCharacter(k, character) ==
    /\ k \in DOMAIN imports
    /\ imports[k].type = "character"
    /\ characters' = IF character.id \notin imports[k].characterIds
                     THEN Append(characters, character)
                     ELSE ReplaceById(characters, character)
    /\ characterPositions' =
           CanvasEffect(characters', selectedCharacterIds, characterPositions,
                        error, generatedContent)
    /\ imports' = SpliceOut(imports, k)
    /\ lastOp' = Tag("importCharacter")
    /\ UNCHANGED <<selectedCharacterIds, characterRotations, scenes,
                   currentSceneId, scenePrompt, error, generatedContent,
                   isLoading, isSaving, observed, genVars, imgVars, calls,
                   selectedId, gestures, buttons>>

RECURSIVE ImportLibraryResult(_, _)
\* handleImportLibrary's updater: newCharacters.forEach over combined = [...prev]
ImportLibraryResult(combined, newCharacters) ==
    IF newCharacters = <<>> THEN combined
    ELSE LET newChar == Head(newCharacters)
             existingIndex == FindIndex(IdsOf(combined), newChar.id)
         IN  ImportLibraryResult(
                 IF existingIndex > 0
                 THEN [combined EXCEPT ![existingIndex] = newChar]
                 ELSE Append(combined, newChar),
                 Tail(newCharacters))

\* the read of import k has finished with an array: handleImportLibrary
HandleImportLibrary(k, newCharacters) ==
    /\ k \in DOMAIN imports
    /\ imports[k].type = "character"
    /\ characters' = ImportLibraryResult(characters, newCharacters)
    /\ characterPositions' =
           CanvasEffect(characters', selectedCharacterIds, characterPositions,
                        error, generatedContent)
    /\ imports' = SpliceOut(imports, k)
    /\ lastOp' = Tag("importLibrary")
    /\ UNCHANGED <<selectedCharacterIds, characterRotations, scenes,
                   currentSceneId, scenePrompt, error, generatedContent,
                   isLoading, isSaving, observed, genVars, imgVars, calls,
                   selectedId, gestures, buttons>>

\* the read of import k has finished with a scene: handleImportScene of the
\* render the import was started from; limit caps the saved scenes
HandleImportScene(k, scene, limit) ==
    /\ k \in DOMAIN imports
    /\ imports[k].type = "scene"
    /\ scenes' = IF scene.id \notin imports[k].sceneIds
                 THEN <<scene>> \o scenes
                 ELSE ReplaceById(scenes, scene)
    /\ Len(scenes') <= limit
    /\ imports' = SpliceOut(imports, k)
    /\ lastOp' = Tag("importScene")
    /\ UNCHANGED <<characters, selectedCharacterIds, characterRotations,
                   characterPositions, currentSceneId, scenePrompt, error,
                   generatedContent, isLoading, isSaving, observed, genVars,
                   imgVars, calls, selectedId, gestures, buttons>>

(***************************************************************************)
(* Spec: layer order and saved scenes over a library of three characters   *)
(* that can be deleted                                                     *)
(***************************************************************************)
Next ==
    \/ \E id \in Ids : HandleCharacterSelect(id)
    \/ \E id \in Ids : HandleDeleteCharacter(id)
    \/ \E dragged \in Ids \cup {Null}, target \in Ids : HandleDrop(dragged, target)
    \/ InitiateSave
    \/ CancelSave
    \/ \E newId \in SceneIds : ConfirmSave("n1", newId, 1, MaxScenes)
    \/ \E scene \in Range(scenes) : HandleLoadScene(scene)
    \/ \E id \in SceneIds : HandleDeleteScene(id)
    \/ HandleResetScene

Spec == Init /\ [][Next]_vars

(***************************************************************************)
(* SpecXf: layer order and transform gestures, no saved scenes             *)
(***************************************************************************)
InitXf ==
    /\ InitApp
    /\ observed = {}
    /\ ImgIdle
    /\ calls = <<>>
    /\ UiIdle
    /\ GenIdle

NextXf ==
    \/ \E id \in Ids : HandleCharacterSelect(id)
    \/ \E id \in Ids : HandleSaveCharacter(id)
    \/ \E id \in Ids : HandleDeleteCharacter(id)
    \/ \E dragged \in Ids \cup {Null}, target \in Ids : HandleDrop(dragged, target)
    \/ \E id \in Ids, rot \in RotVals : OnRotationChange(id, rot)
    \/ \E id \in Ids, pos \in PosVals : OnPositionChange(id, pos)
    \/ InitiateSave
    \/ CancelSave
    \/ HandleResetScene

SpecXf == InitXf /\ [][NextXf]_vars

(***************************************************************************)
(* SpecGen: one call of generateScene or generateImageFromInput            *)
(***************************************************************************)
RECURSIVE Perms(_)
\* the orders in which the ids of a set can be layered
Perms(S) ==
    IF S = {} THEN {<<>>}
    ELSE UNION {{<<x>> \o p : p \in Perms(S \ {x})} : x \in S}

\* selectedCharacters as handleGenerate passes them: distinct ids, at least one
GenCharacterLists ==
    {[i \in DOMAIN p |-> Character(p[i])] :
        p \in UNION {Perms(S) : S \in {T \in SUBSET Ids : Cardinality(T) \in 1..MaxGenChars}}}

GenRotations == {EmptyMap, [id \in {"a", "b"} |-> IF id = "a" THEN 90 ELSE 0]}

InitGen ==
    /\ InitApp
    /\ observed = {}
    /\ ImgIdle
    /\ calls = <<>>
    /\ UiIdle
    /\ gPc = "parse"
    /\ gFn \in {"generateScene", "generateImageFromInput"}
    /\ gInput \in RawPrompts
    /\ gHasOnProgress \in BOOLEAN
    /\ IF gFn = "generateScene"
       THEN gCharacters \in GenCharacterLists /\ gRotations \in GenRotations
       ELSE gCharacters = <<>> /\ gRotations = EmptyMap
    /\ gFinalPrompt = gInput
    /\ gTransparent = FALSE
    /\ gMime = IF gFn = "generateScene" THEN Null ELSE "image/jpeg"
    /\ gProgress = <<>>
    /\ gThrown = FALSE
    /\ gIdx = 1
    /\ gInFlight = {}
    /\ gParts = <<>>
    /\ gNarration = <<>>
    /\ gFullPrompt = <<>>
    /\ gRequest = NoRequest
    /\ gResult = Null

\* the try / catch block that reads the directive out of the raw prompt
GenParse ==
    /\ gPc = "parse"
    /\ LET d == ParseDirective(gInput, gHasOnProgress)
       IN  /\ gFinalPrompt' = d.text
           /\ gTransparent' = d.transparent
           /\ gProgress' = d.progress
           /\ gThrown' = d.thrown
           /\ gMime' = IF gFn = "generateScene" THEN Null
                       ELSE OutputMimeType(d.transparent)
           /\ gPc' = IF d.thrown THEN "done"
                     ELSE IF gFn = "generateScene" THEN "images" ELSE "request"
           /\ gResult' = IF d.thrown THEN "threw" ELSE gResult
    /\ UNCHANGED <<appVars, imgVars, calls, uiVars, gFn, gInput, gHasOnProgress, gCharacters, gRotations,
                   gIdx, gInFlight, gParts, gNarration, gFullPrompt, gRequest>>

\* a loop that starts the preprocessing of every remaining character at once
GenStartProcessEager ==
    /\ gPc = "images"
    /\ gIdx <= Len(gCharacters)
    /\ gInFlight = {}
    /\ gInFlight' = gIdx..Len(gCharacters)
    /\ UNCHANGED <<appVars, imgVars, calls, uiVars, gPc, gFn, gInput, gHasOnProgress,
                   gCharacters, gRotations, gFinalPrompt, gTransparent, gMime,
                   gProgress, gThrown, gIdx, gParts, gNarration, gFullPrompt,
                   gRequest, gResult>>

\* for (const character of characters): call processCharacterImage and await it
GenStartProcess ==
    /\ gPc = "images"
    /\ gIdx <= Len(gCharacters)
    /\ gInFlight = {}
    /\ gInFlight' = {gIdx}
    /\ UNCHANGED <<appVars, imgVars, calls, uiVars, gPc, gFn, gInput, gHasOnProgress, gCharacters,
                   gRotations, gFinalPrompt, gTransparent, gMime, gProgress,
                   gThrown, gIdx, gParts, gNarration, gFullPrompt, gRequest,
                   gResult>>

\* the promise resolves; the rest of the loop body runs. imageUrl is the
\* character's image reference, read by nothing before this step.
GenFinishProcess(imageUrl, outcome) ==
    /\ gPc = "images"
    /\ gInFlight = {gIdx}
    /\ outcome \in ImageOutcomes(imageUrl)
    /\ LET character == gCharacters[gIdx]
           rotation == RotationOf(gRotations, character.id)
           processed == ProcessCharacterImage(imageUrl, outcome)
       IN  gParts' = gParts \o ImageParts(processed, character, rotation)
    /\ gInFlight' = {}
    /\ gIdx' = gIdx + 1
    /\ UNCHANGED <<appVars, imgVars, calls, uiVars, gPc, gFn, gInput, gHasOnProgress, gCharacters,
                   gRotations, gFinalPrompt, gTransparent, gMime, gProgress,
                   gThrown, gNarration, gFullPrompt, gRequest, gResult>>

\* after the loop: layering instruction, fullPrompt, the text part, and the
\* call of ai.models.generateContent
GenAssemble ==
    /\ gPc = "images"
    /\ gIdx > Len(gCharacters)
    /\ gInFlight = {}
    /\ gNarration' = LayerDescriptions(gCharacters)
    /\ gFullPrompt' = FullPrompt(gCharacters, gFinalPrompt, gTransparent)
    /\ gParts' = Append(gParts, [kind |-> "text", text |-> PromptText(gFullPrompt')])
    /\ gRequest' = [fn |-> "generateContent", parts |-> gParts',
                    outputMimeType |-> Null]
    /\ gPc' = "await"
    /\ UNCHANGED <<appVars, imgVars, calls, uiVars, gFn, gInput, gHasOnProgress, gCharacters, gRotations,
                   gFinalPrompt, gTransparent, gMime, gProgress, gThrown, gIdx,
                   gInFlight, gResult>>

\* generateImageFromInput: the call of ai.models.generateImages
GenRequestImage ==
    /\ gPc = "request"
    /\ gFullPrompt' = ImagePrompt(gFinalPrompt, gTransparent)
    /\ gRequest' = [fn |-> "generateImages",
                    parts |-> <<[kind |-> "text", text |-> PromptText(gFullPrompt')]>>,
                    outputMimeType |-> gMime]
    /\ gPc' = "await"
    /\ UNCHANGED <<appVars, imgVars, calls, uiVars, gFn, gInput, gHasOnProgress, gCharacters, gRotations,
                   gFinalPrompt, gTransparent, gMime, gProgress, gThrown, gIdx,
                   gInFlight, gParts, gNarration>>
    /\ UNCHANGED gResult

\* the generation operation completes, with or without image content
GenRespond(hasImage) ==
    /\ gPc = "await"
    /\ gResult' = IF hasImage THEN "returned" ELSE "threw"
    /\ gPc' = "done"
    /\ UNCHANGED <<appVars, imgVars, calls, uiVars, gFn, gInput, gHasOnProgress, gCharacters, gRotations,
                   gFinalPrompt, gTransparent, gMime, gProgress, gThrown, gIdx,
                   gInFlight, gParts, gNarration, gFullPrompt, gRequest>>

NextGen ==
    \/ GenParse
    \/ GenStartProcess
    \/ \E imageUrl \in ImageUrls, outcome \in {"load", "noContext", "error"} :
           GenFinishProcess(imageUrl, outcome)
    \/ GenAssemble
    \/ GenRequestImage
    \/ \E hasImage \in BOOLEAN : GenRespond(hasImage)

SpecGen == InitGen /\ [][NextGen]_vars

\* the browser settles every image load and the event loop runs every
\* continuation, so a step that can be taken is taken
SpecGenLive == SpecGen /\ WF_vars(NextGen)

(***************************************************************************)
(* SpecImg: one call of processCharacterImage(base64Str, rotation, 512)    *)
(***************************************************************************)
InitImg ==
    /\ InitApp
    /\ observed = {}
    /\ calls = <<>>
    /\ UiIdle
    /\ GenIdle
    /\ imgPc = "pending"
    /\ imgWidth \in ImgSizes
    /\ imgHeight \in ImgSizes
    /\ imgRotation \in ImgRotations
    /\ imgScaled = [width |-> Whole(0), height |-> Whole(0)]
    /\ imgResult = NoRaster

\* img.onload: resize, canvas size, getContext, draw, toDataURL
ImgOnLoad(hasContext) ==
    /\ imgPc = "pending"
    /\ imgScaled' = Resize(imgWidth, imgHeight)
    /\ imgResult' =
           IF hasContext
           THEN [kind |-> "canvas",
                 width |-> CanvasEdge(imgScaled'.width, imgScaled'.height, imgRotation),
                 height |-> CanvasEdge(imgScaled'.height, imgScaled'.width, imgRotation)]
           ELSE [kind |-> "original", width |-> imgWidth, height |-> imgHeight]
    /\ imgPc' = "resolved"
    /\ UNCHANGED <<appVars, genVars, calls, uiVars, imgWidth, imgHeight, imgRotation>>

\* img.onerror: resolve(base64Str)
ImgOnError ==
    /\ imgPc = "pending"
    /\ imgResult' = [kind |-> "original", width |-> imgWidth, height |-> imgHeight]
    /\ imgPc' = "resolved"
    /\ UNCHANGED <<appVars, genVars, calls, uiVars, imgWidth, imgHeight, imgRotation,
                   imgScaled>>

NextImg ==
    \/ \E hasContext \in BOOLEAN : ImgOnLoad(hasContext)
    \/ ImgOnError

SpecImg == InitImg /\ [][NextImg]_vars

(***************************************************************************)
(* SpecCompose: SceneBuilder.handleGenerate, its calls of generateScene in *)
(* flight, and the editing that goes on meanwhile                          *)
(***************************************************************************)
MaxCalls == 2                       \* handleGenerate invocations that reach generateScene
ComposeIds == {"a", "b"}            \* the library of this specification

GenerateError == "Please select at least one character from the library."
GenerationFailed == "Scene generation failed to produce an image."

\* the url generateScene returns to the k-th call
ContentOf(k) == "image of call " \o ToString(k)

\* Canvas.renderContent: what the canvas area shows
CanvasShows(loading, err, content, selChars) ==
    IF loading THEN "loader"
    ELSE IF err # Null THEN "error"
    ELSE IF content # Null THEN "content"
    ELSE IF Len(selChars) > 0 THEN "stage"
    ELSE "empty"

\* generateScene(selectedCharacters, scenePrompt, characterRotations) up to its
\* first await: the arguments, the parsed directive, an empty parts array
\* (progress: what the parse block passed to onProgress; handleGenerate passes
\* no fourth argument, so onProgress is undefined)
NewCall(chars, prompt, rotations) ==
    [characters |-> chars, scenePrompt |-> prompt, rotations |-> rotations,
     progress |-> ParseDirective(prompt, FALSE).progress,
     idx |-> 1, parts |-> <<>>, request |-> NoRequest, invoked |-> 0,
     pc |-> "images", outcome |-> Null]

\* a click on Generate Scene that skips the check for an empty selection
HandleGenerateUnchecked ==
    /\ Len(calls) < MaxCalls
    /\ isLoading' = TRUE
    /\ error' = Null
    /\ calls' = Append(calls, NewCall([i \in DOMAIN selectedCharacters |->
                                           Character(selectedCharacters[i])],
                                      scenePrompt, characterRotations))
    /\ lastOp' = Tag("generate")
    /\ UNCHANGED <<characters, selectedCharacterIds, characterRotations,
                   characterPositions, scenes, currentSceneId, scenePrompt,
                   generatedContent, isSaving, observed, genVars, imgVars, uiVars>>

\* SceneBuilder.handleGenerate up to the await of generateScene
HandleGenerate ==
    /\ Len(calls) < MaxCalls
    /\ IF Len(selectedCharacters) = 0
       THEN /\ error' = GenerateError
            /\ UNCHANGED <<isLoading, calls>>
       ELSE /\ isLoading' = TRUE
            /\ error' = Null
            /\ calls' = Append(calls, NewCall([i \in DOMAIN selectedCharacters |->
                                                   Character(selectedCharacters[i])],
                                              scenePrompt, characterRotations))
    /\ lastOp' = Tag("generate")
    /\ UNCHANGED <<characters, selectedCharacterIds, characterRotations,
                   characterPositions, scenes, currentSceneId, scenePrompt,
                   generatedContent, isSaving, observed, genVars, imgVars, uiVars>>

\* one pass of the for-of loop of call k: await processCharacterImage, push the part
CallProcess(k, imageUrl, outcome) ==
    /\ k \in DOMAIN calls
    /\ calls[k].pc = "images"
    /\ calls[k].idx <= Len(calls[k].characters)
    /\ outcome \in ImageOutcomes(imageUrl)
    /\ LET call == calls[k]
           character == call.characters[call.idx]
           rotation == RotationOf(call.rotations, character.id)
           processed == ProcessCharacterImage(imageUrl, outcome)
       IN  calls' = [calls EXCEPT
                        ![k].parts = call.parts \o ImageParts(processed, character, rotation),
                        ![k].idx = call.idx + 1]
    /\ UNCHANGED <<appVars, genVars, imgVars, uiVars>>

\* a request step that reads the prompt from the live state
CallRequestLivePrompt(k) ==
    /\ k \in DOMAIN calls
    /\ calls[k].pc = "images"
    /\ calls[k].idx > Len(calls[k].characters)
    /\ LET call == calls[k]
           d == ParseDirective(scenePrompt, FALSE)
           text == PromptText(FullPrompt(call.characters, d.text, d.transparent))
           parts == Append(call.parts, [kind |-> "text", text |-> text])
       IN  calls' = [calls EXCEPT
                        ![k].parts = parts,
                        ![k].request = [fn |-> "generateContent", parts |-> parts,
                                        outputMimeType |-> Null],
                        ![k].invoked = call.invoked + 1,
                        ![k].pc = "await"]
    /\ UNCHANGED <<appVars, genVars, imgVars, uiVars>>

\* call k after its loop: the prompt text, the text part, ai.models.generateContent
CallRequest(k) ==
    /\ k \in DOMAIN calls
    /\ calls[k].pc = "images"
    /\ calls[k].idx > Len(calls[k].characters)
    /\ LET call == calls[k]
           d == ParseDirective(call.scenePrompt, FALSE)
           text == PromptText(FullPrompt(call.characters, d.text, d.transparent))
           parts == Append(call.parts, [kind |-> "text", text |-> text])
       IN  calls' = [calls EXCEPT
                        ![k].parts = parts,
                        ![k].request = [fn |-> "generateContent", parts |-> parts,
                                        outputMimeType |-> Null],
                        ![k].invoked = call.invoked + 1,
                        ![k].pc = "await"]
    /\ UNCHANGED <<appVars, genVars, imgVars, uiVars>>

\* a completion that sends the request again when no image came back
CallCompleteRetry(k, hasImage) ==
    /\ k \in DOMAIN calls
    /\ calls[k].pc = "await"
    /\ IF hasImage
       THEN /\ generatedContent' = ContentOf(k)
            /\ error' = Null
            /\ isLoading' = FALSE
            /\ calls' = [calls EXCEPT ![k].pc = "done", ![k].outcome = "returned"]
       ELSE /\ calls[k].invoked < 2
            /\ calls' = [calls EXCEPT ![k].invoked = calls[k].invoked + 1]
            /\ UNCHANGED <<generatedContent, error, isLoading>>
    /\ lastOp' = Tag("complete")
    /\ UNCHANGED <<characters, selectedCharacterIds, characterRotations,
                   characterPositions, scenes, currentSceneId, scenePrompt,
                   isSaving, observed, genVars, imgVars, uiVars>>

\* the generation operation of call k completes: generateScene returns the image
\* or throws, and handleGenerate resumes (onGenerationComplete -> App's
\* handleGenerationComplete, or setError in the catch; setLoading(false) in finally)
CallComplete(k, hasImage) ==
    /\ k \in DOMAIN calls
    /\ calls[k].pc = "await"
    /\ IF hasImage
       THEN /\ generatedContent' = ContentOf(k)
            /\ error' = Null
       ELSE /\ error' = GenerationFailed
            /\ UNCHANGED generatedContent
    /\ isLoading' = FALSE
    /\ calls' = [calls EXCEPT ![k].pc = "done",
                              ![k].outcome = IF hasImage THEN "returned" ELSE "threw"]
    /\ lastOp' = Tag("complete")
    /\ UNCHANGED <<characters, selectedCharacterIds, characterRotations,
                   characterPositions, scenes, currentSceneId, scenePrompt,
                   isSaving, observed, genVars, imgVars, uiVars>>

\* the library holds the characters a and b, created earlier with the modal
InitCompose ==
    /\ characters = <<Character("a"), Character("b")>>
    /\ selectedCharacterIds = <<>>
    /\ characterRotations = EmptyMap
    /\ characterPositions = EmptyMap
    /\ scenes = <<>>
    /\ currentSceneId = Null
    /\ scenePrompt = DefaultPrompt
    /\ error = Null
    /\ generatedContent = Null
    /\ isLoading = FALSE
    /\ isSaving = FALSE
    /\ lastOp = "other"
    /\ observed = {}
    /\ ImgIdle
    /\ calls = <<>>
    /\ UiIdle
    /\ GenIdle

\* an editing step of the user: select or deselect, reorder, rotate, edit the
\* prompt, reset
ComposeEdit ==
    \/ \E id \in ComposeIds : HandleCharacterSelect(id)
    \/ \E dragged \in ComposeIds, target \in ComposeIds : HandleDrop(dragged, target)
    \/ \E rot \in RotVals : OnRotationChange("a", rot)
    \/ SetScenePrompt("p1")
    \/ HandleResetScene

NextCompose ==
    \/ ComposeEdit
    \/ HandleGenerate
    \/ \E k \in 1..MaxCalls : CallProcess(k, DataUrl("image/jpeg", "SRC"), "load")
    \/ \E k \in 1..MaxCalls : CallRequest(k)
    \/ \E k \in 1..MaxCalls, hasImage \in BOOLEAN : CallComplete(k, hasImage)

SpecCompose == InitCompose /\ [][NextCompose]_vars

(***************************************************************************)
(* SpecLayers: the layer order under select / deselect and under drops of  *)
(* the layer list, four characters in the library                          *)
(***************************************************************************)
LayerIds == {"a", "b", "c", "d"}

InitLayers ==
    /\ characters = <<Character("a"), Character("b"), Character("c"), Character("d")>>
    /\ selectedCharacterIds = <<>>
    /\ characterRotations = EmptyMap
    /\ characterPositions = EmptyMap
    /\ scenes = <<>>
    /\ currentSceneId = Null
    /\ scenePrompt = DefaultPrompt
    /\ error = Null
    /\ generatedContent = Null
    /\ isLoading = FALSE
    /\ isSaving = FALSE
    /\ lastOp = "other"
    /\ observed = {"select", "drop", "dropIgnored"}
    /\ ImgIdle
    /\ calls = <<>>
    /\ UiIdle
    /\ GenIdle

NextLayers ==
    \/ \E id \in LayerIds : HandleCharacterSelect(id)
    \/ \E dragged \in LayerIds \cup {Null}, target \in LayerIds :
           LayerManagerDrop(dragged, target)

SpecLayers == InitLayers /\ [][NextLayers]_vars

(***************************************************************************)
(* SpecImport: the library under imports of single characters and of whole *)
(* libraries                                                               *)
(***************************************************************************)
ImportIds == {"a", "b"}

\* the characters a file can hold: the exported record, or one renamed
ImportCharacters ==
    UNION {{Character(id), [id |-> id, name |-> "X"]} : id \in ImportIds}

\* the arrays a library file can hold, an id repeated included
ImportLibraries ==
    {<<c>> : c \in ImportCharacters}
    \cup {<<c, d>> : c \in ImportCharacters, d \in ImportCharacters}

InitImport ==
    /\ InitApp
    /\ observed = {"importCharacter", "importLibrary"}
    /\ ImgIdle
    /\ calls = <<>>
    /\ UiIdle
    /\ GenIdle

NextImport ==
    \/ ImportClick("character")
    \/ \E k \in 1..MaxImports, character \in ImportCharacters :
           HandleImportCharacter(k, character)
    \/ \E k \in 1..MaxImports, newCharacters \in ImportLibraries :
           HandleImportLibrary(k, newCharacters)

SpecImport == InitImport /\ [][NextImport]_vars

(***************************************************************************)
(* SpecSceneFrame: the saved scenes under editing of the live state, and   *)
(* under save, load, import, delete and reset                              *)
(***************************************************************************)
\* the scenes a file can hold: exported from another session, or an earlier
\* export of a scene of this one (same id)
ImportScenes ==
    {[id |-> id, name |-> "n2", characterIds |-> <<"b">>, prompt |-> "p1",
      createdAt |-> 2, rotations |-> EmptyMap, positions |-> EmptyMap,
      generatedContent |-> Null] : id \in SceneIds}

\* the library holds the characters a and b, created earlier with the modal
InitSceneFrame ==
    /\ characters = <<Character("a"), Character("b")>>
    /\ selectedCharacterIds = <<>>
    /\ characterRotations = EmptyMap
    /\ characterPositions = EmptyMap
    /\ scenes = <<>>
    /\ currentSceneId = Null
    /\ scenePrompt = DefaultPrompt
    /\ error = Null
    /\ generatedContent = Null
    /\ isLoading = FALSE
    /\ isSaving = FALSE
    /\ lastOp = "other"
    /\ observed = {"saveScene", "importScene", "deleteScene"}
    /\ ImgIdle
    /\ calls = <<>>
    /\ UiIdle
    /\ GenIdle

\* an editing step on the live state: select or deselect, reorder, rotate,
\* move, edit the prompt, reset
SceneEdit ==
    \/ \E id \in ComposeIds : HandleCharacterSelect(id)
    \/ \E dragged \in ComposeIds, target \in ComposeIds : HandleDrop(dragged, target)
    \/ \E rot \in RotVals : OnRotationChange("a", rot)
    \/ \E pos \in PosVals : OnPositionChange("a", pos)
    \/ SetScenePrompt("p1")
    \/ HandleResetScene

NextSceneFrame ==
    \/ SceneEdit
    \/ InitiateSave
    \/ \E newId \in SceneIds : ConfirmSave("n1", newId, 1, MaxScenes)
    \/ \E scene \in Range(scenes) : HandleLoadScene(scene)
    \/ ImportClick("scene")
    \/ \E k \in 1..MaxImports, scene \in ImportScenes :
           HandleImportScene(k, scene, MaxScenes)
    \/ \E id \in SceneIds : HandleDeleteScene(id)

SpecSceneFrame == InitSceneFrame /\ [][NextSceneFrame]_vars

(***************************************************************************)
(* SpecGesture: the mouse on the stage. TransformableCharacter keeps        *)
(* isDragging and isRotating per mounted character; its effect listens to  *)
(* mousemove and mouseup on window while either is true                    *)
(***************************************************************************)
Buttons == {0, 2}                   \* MouseEvent.button: left, right

GestureIdle == [isDragging |-> FALSE, isRotating |-> FALSE]

\* the effect registered the window listeners of this component
Listening(g) == g.isDragging \/ g.isRotating

\* a and b are on the stage, centred by the Canvas when they were selected
InitGesture ==
    /\ characters = <<Character("a"), Character("b")>>
    /\ selectedCharacterIds = <<"a", "b">>
    /\ characterRotations = EmptyMap
    /\ characterPositions = [id \in ComposeIds |-> Center]
    /\ scenes = <<>>
    /\ currentSceneId = Null
    /\ scenePrompt = DefaultPrompt
    /\ error = Null
    /\ generatedContent = Null
    /\ isLoading = FALSE
    /\ isSaving = FALSE
    /\ lastOp = "other"
    /\ observed = {}
    /\ ImgIdle
    /\ calls = <<>>
    /\ GenIdle
    /\ imports = <<>>
    /\ selectedId = Null
    /\ gestures = [id \in ComposeIds |-> GestureIdle]
    /\ buttons = {}

\* handleMouseDown: a press on the body of character id
MouseDownBody(id, button) ==
    /\ OnStage(id)
    /\ button \notin buttons
    /\ buttons' = buttons \cup {button}
    /\ IF button # 0
       THEN UNCHANGED <<selectedId, gestures>>
       ELSE /\ selectedId' = id
            /\ gestures' = [gestures EXCEPT ![id].isDragging = TRUE]
    /\ UNCHANGED <<appVars, genVars, imgVars, calls, imports>>

\* handleRotateMouseDown: a press on the rotate handle, which is rendered while
\* the character is the selected one; the handler does not look at e.button.
\* A character that is being dragged follows the pointer, so the pointer is on
\* its body and cannot be on its handle.
RotateMouseDown(id, button) ==
    /\ OnStage(id)
    /\ selectedId = id
    /\ ~gestures[id].isDragging
    /\ button \notin buttons
    /\ buttons' = buttons \cup {button}
    /\ gestures' = [gestures EXCEPT ![id].isRotating = TRUE]
    /\ UNCHANGED <<appVars, genVars, imgVars, calls, imports, selectedId>>

\* window mousemove: handleMouseMove of every component that listens; pos and
\* rot are what the pointer position works out to
MouseMove(pos, rot) ==
    /\ characterPositions' =
           [k \in DOMAIN characterPositions |->
               IF k \in DOMAIN gestures /\ gestures[k].isDragging
               THEN pos ELSE characterPositions[k]]
    /\ characterRotations' =
           LET rotated == {k \in DOMAIN gestures :
                              ~gestures[k].isDragging /\ gestures[k].isRotating}
           IN  [k \in (DOMAIN characterRotations) \cup rotated |->
                   IF k \in rotated THEN rot ELSE characterRotations[k]]
    /\ UNCHANGED <<characters, selectedCharacterIds, scenes, currentSceneId,
                   scenePrompt, error, generatedContent, isLoading, isSaving,
                   observed, lastOp, genVars, imgVars, calls, uiVars>>

\* window mouseup: handleMouseUp of every component that listens; a release of
\* the left button over the stage is followed by a click, which reaches the
\* container's onClick (setSelectedId(null))
MouseUp(button, overStage) ==
    /\ button \in buttons
    /\ buttons' = buttons \ {button}
    /\ gestures' = [k \in DOMAIN gestures |->
                       IF Listening(gestures[k]) THEN GestureIdle ELSE gestures[k]]
    /\ selectedId' = IF button = 0 /\ overStage THEN Null ELSE selectedId
    /\ UNCHANGED <<appVars, genVars, imgVars, calls, imports>>

NextGesture ==
    \/ \E id \in ComposeIds, button \in Buttons : MouseDownBody(id, button)
    \/ \E id \in ComposeIds, button \in Buttons : RotateMouseDown(id, button)
    \/ \E pos \in PosVals, rot \in RotVals : MouseMove(pos, rot)
    \/ \E button \in Buttons, overStage \in BOOLEAN : MouseUp(button, overStage)

SpecGesture == InitGesture /\ [][NextGesture]_vars

(***************************************************************************)
(* SpecCaption: handleGenerate on scene prompts that are JSON directives   *)
(* with and without a progress caption                                     *)
(***************************************************************************)
CaptionDirective(caption) ==
    [kind |-> "object", prompt |-> "x", transparent_background |-> Absent,
     progression_text |-> caption]

\* what the user types into the scene prompt field
CaptionPrompts ==
    {DefaultPrompt, Stringify(CaptionDirective("cap")), Stringify(CaptionDirective(Absent))}

InitCaption == InitCompose

NextCaption ==
    \/ HandleCharacterSelect("a")
    \/ \E p \in CaptionPrompts : SetScenePrompt(p)
    \/ HandleGenerate
    \/ \E k \in 1..MaxCalls : CallProcess(k, DataUrl("image/jpeg", "SRC"), "load")
    \/ \E k \in 1..MaxCalls : CallRequest(k)
    \/ \E k \in 1..MaxCalls, hasImage \in BOOLEAN : CallComplete(k, hasImage)

SpecCaption == InitCaption /\ [][NextCaption]_vars

(***************************************************************************)
(* SpecRoundTrip: one saved scene, loaded again after the live state has   *)
(* been edited                                                             *)
(***************************************************************************)
\* the library holds the characters a and b, created earlier with the modal
InitRoundTrip ==
    /\ characters = <<Character("a"), Character("b")>>
    /\ selectedCharacterIds = <<>>
    /\ characterRotations = EmptyMap
    /\ characterPositions = EmptyMap
    /\ scenes = <<>>
    /\ currentSceneId = Null
    /\ scenePrompt = DefaultPrompt
    /\ error = Null
    /\ generatedContent = Null
    /\ isLoading = FALSE
    /\ isSaving = FALSE
    /\ lastOp = "other"
    /\ observed = {"loadScene"}
    /\ ImgIdle
    /\ calls = <<>>
    /\ UiIdle
    /\ GenIdle

NextRoundTrip ==
    \/ \E id \in ComposeIds : HandleCharacterSelect(id)
    \/ \E dragged \in ComposeIds, target \in ComposeIds : HandleDrop(dragged, target)
    \/ \E rot \in RotVals : OnRotationChange("a", rot)
    \/ \E pos \in PosVals : OnPositionChange("a", pos)
    \/ SetScenePrompt("p1")
    \/ InitiateSave
    \/ \E newId \in SceneIds : ConfirmSave("n1", newId, 1, MaxScenes)
    \/ \E scene \in Range(scenes) : HandleLoadScene(scene)
    \/ HandleResetScene

SpecRoundTrip == InitRoundTrip /\ [][NextRoundTrip]_vars

(***************************************************************************)
(* SpecScene: saving, re-saving and saving under another name, two scenes  *)
(* kept, one character in the library                                      *)
(***************************************************************************)
MaxSavedScenes == 2                 \* saved scenes kept at a time
SavedSceneIds == {SceneIdOf(i) : i \in 1..MaxSavedScenes}
Times == {1, 2}                     \* what Date.now() returns

\* the library holds the character a, created earlier with the modal
InitScene ==
    /\ characters = <<Character("a")>>
    /\ selectedCharacterIds = <<>>
    /\ characterRotations = EmptyMap
    /\ characterPositions = EmptyMap
    /\ scenes = <<>>
    /\ currentSceneId = Null
    /\ scenePrompt = DefaultPrompt
    /\ error = Null
    /\ generatedContent = Null
    /\ isLoading = FALSE
    /\ isSaving = FALSE
    /\ lastOp = "other"
    /\ observed = {"saveScene"}
    /\ ImgIdle
    /\ calls = <<>>
    /\ UiIdle
    /\ GenIdle

NextScene ==
    \/ HandleCharacterSelect("a")
    \/ \E rot \in RotVals : OnRotationChange("a", rot)
    \/ SetScenePrompt("p1")
    \/ InitiateSave
    \/ \E name \in SceneNames, newId \in SavedSceneIds, now \in Times :
           ConfirmSave(name, newId, now, MaxSavedScenes)
    \/ \E scene \in Range(scenes) : HandleLoadScene(scene)
    \/ \E id \in SavedSceneIds : HandleDeleteScene(id)
    \/ HandleResetScene

SpecScene == InitScene /\ [][NextScene]_vars

(***************************************************************************)
(* Layer order and transform claims                                        *)
(***************************************************************************)
\* C1: in every state reachable by select/deselect, drag-and-drop reorder,
\* delete character, save, load and reset scene, the layer order holds each
\* character id at most once.
C1_LayerOrderUnique == NoDup(selectedCharacterIds)

\* three layers in an order other than the one stored in the current scene
C1_Witness ==
    /\ Len(selectedCharacterIds) = 3
    /\ currentSceneId \in SceneIdsInUse
    /\ Len(SceneById(currentSceneId).characterIds) = 3
    /\ selectedCharacterIds # SceneById(currentSceneId).characterIds

\* C2: a drag-and-drop reorder is a permutation of the layer order: the set of
\* ids after it equals the set before it and no id is duplicated, also when the
\* layer order holds ids that have no character in the library.
C2_ReorderIsPermutation ==
    [][(\E dragged \in Ids \cup {Null}, target \in Ids : HandleDrop(dragged, target))
         => /\ Range(selectedCharacterIds') = Range(selectedCharacterIds)
            /\ NoDup(selectedCharacterIds')]_vars

\* C3: every id in the layer order has a key in characterPositions and a key in
\* characterRotations.
C3_LayerHasTransform ==
    \A id \in Range(selectedCharacterIds) :
        id \in DOMAIN characterPositions /\ id \in DOMAIN characterRotations

\* C4: deselecting an id or deleting its character removes the id's entries from
\* characterRotations and characterPositions.
C4_RemovalClearsTransform ==
    [][\A id \in Ids :
          (/\ id \in Range(selectedCharacterIds)
           /\ HandleCharacterSelect(id) \/ HandleDeleteCharacter(id))
          => /\ id \notin DOMAIN characterRotations'
             /\ id \notin DOMAIN characterPositions']_vars

(***************************************************************************)
(* Generation claims (SpecGen)                                             *)
(***************************************************************************)
SceneRequestSent == gRequest.fn = "generateContent"

RequestSent == gRequest.fn \in {"generateContent", "generateImages"}

ImagePartsSent == SelectSeq(gRequest.parts, LAMBDA part : part.kind = "image")

\* C5: generateScene with n characters sends exactly n image parts followed by
\* exactly one text part, whatever preprocessing does (a decode or context
\* failure that hands back the original image reference included).
C5_OnePartPerCharacter ==
    SceneRequestSent =>
        LET n == Len(gCharacters)
            parts == gRequest.parts
        IN  /\ Len(parts) = n + 1
            /\ \A i \in 1..n : parts[i].kind = "image"
            /\ parts[n + 1].kind = "text"

Names == {NameOf(id) : id \in Ids}

\* the sentence fragments that describe the layer of the character called name
FragmentsAbout(name) ==
    {name \o " is in the background", name \o " is in the foreground"}
    \cup {name \o " is behind " \o x \o " and in front of " \o y : x, y \in Names}

\* the place of a character in the narration
NarrationIndex(id) ==
    CHOOSE k \in DOMAIN gNarration : gNarration[k] \in FragmentsAbout(NameOf(id))

\* the place of a character in the characters sequence
CharacterIndex(id) ==
    CHOOSE k \in DOMAIN gCharacters : gCharacters[k].id = id

\* C6: image parts are pushed in the back-to-front order of the characters, and
\* the narration lists the characters in that order: two characters that both
\* have an image part are in the same relative order in the parts and in the
\* narration.
C6_PartsFollowNarration ==
    SceneRequestSent =>
        /\ \A i, j \in DOMAIN ImagePartsSent :
               i < j => CharacterIndex(ImagePartsSent[i].char)
                            < CharacterIndex(ImagePartsSent[j].char)
        /\ Len(gCharacters) > 1 =>
               /\ \A id \in {gCharacters[k].id : k \in DOMAIN gCharacters} :
                      \E k \in DOMAIN gNarration :
                          gNarration[k] \in FragmentsAbout(NameOf(id))
               /\ \A i, j \in DOMAIN ImagePartsSent :
                      i < j => NarrationIndex(ImagePartsSent[i].char)
                                   < NarrationIndex(ImagePartsSent[j].char)

\* three characters, narrated, of which one lost its image part
C6_Witness ==
    /\ SceneRequestSent
    /\ Len(gCharacters) = 3
    /\ Len(ImagePartsSent) = 2
    /\ gCharacters[1].id = "c"

\* C7: for n >= 2 characters the narration has one fragment per character in
\* sequence order: the first "<name> is in the background", the last "<name> is
\* in the foreground", every interior one "<name> is behind <next> and in front
\* of <previous>"; for one character there is no narration; on [A, B] it reads
\* "A is in the background. B is in the foreground."
C7_NarrationText ==
    SceneRequestSent =>
        LET n == Len(gCharacters)
            name(i) == gCharacters[i].name
        IN  /\ n = 1 => /\ gNarration = <<>>
                        /\ "narration" \notin Range(SegmentKinds(gFullPrompt))
            /\ n >= 2 =>
                  /\ Len(gNarration) = n
                  /\ gNarration[1] = name(1) \o " is in the background"
                  /\ gNarration[n] = name(n) \o " is in the foreground"
                  /\ \A i \in 2..(n - 1) :
                         gNarration[i] = name(i) \o " is behind " \o name(i + 1)
                                            \o " and in front of " \o name(i - 1)
            /\ (n = 2 /\ name(1) = "A" /\ name(2) = "B") =>
                  Join(gNarration, ". ") \o "."
                      = "A is in the background. B is in the foreground."
            /\ (n = 3 /\ name(1) = "A" /\ name(2) = "B" /\ name(3) = "C") =>
                  Join(gNarration, ". ") \o "."
                      = "A is in the background. B is behind C and in front of A. C is in the foreground."

\* a narrated scene with an interior layer
C7_Witness ==
    /\ SceneRequestSent
    /\ Len(gCharacters) = 3
    /\ gCharacters[2].id = "a"
    /\ Len(gNarration) = 3

NarrationKinds == IF Len(gCharacters) > 1 THEN <<"narration">> ELSE <<>>

\* C8 as stated: the prompt text is, in this order, the count of characters,
\* the narration, the directive text, the transparency instruction (only when
\* the flag is set) and last the instruction to preserve the characters'
\* appearance.
C8_PreserveIsLast ==
    SceneRequestSent =>
        SegmentKinds(gFullPrompt)
            = <<"count">> \o NarrationKinds \o <<"directive">>
              \o (IF gTransparent THEN <<"transparency">> ELSE <<>>)
              \o <<"preserve">>

\* C8 amended: the prompt text is, in this order, the count of characters, the
\* narration (two or more characters), the directive text, the instruction to
\* preserve the characters' appearance, and last the transparency instruction
\* (only when the flag is set); the text part carries this text.
C8_TransparencyIsLast ==
    SceneRequestSent =>
        /\ SegmentKinds(gFullPrompt)
               = <<"count">> \o NarrationKinds \o <<"directive", "preserve">>
                 \o (IF gTransparent THEN <<"transparency">> ELSE <<>>)
        /\ gRequest.parts[Len(gRequest.parts)].text = PromptText(gFullPrompt)
        /\ (Len(gCharacters) = 1 /\ gFinalPrompt = "x" /\ gTransparent) =>
               PromptText(gFullPrompt)
                   = "Create a new scene featuring the 1 character(s) from the provided image(s). Scene details: x. Maintain the characters' appearance and style as closely as possible. The background should be transparent or solid white to easily isolate the subjects."

\* a narrated scene request whose directive set the transparency flag
C8_Witness ==
    /\ SceneRequestSent
    /\ gTransparent
    /\ Len(gCharacters) = 2

\* raw prompts that are no JSON, or JSON without a usable prompt field
FallbackRaws ==
    {"a picnic in the park", "{\"prompt\":", "", "null", "42", "\"a castle\"", "[1,2]"}
    \cup {Stringify(o) : o \in {v \in JsonObjects : v.prompt \in {Absent, ""}}}

\* C9: the parse never throws, and for every raw prompt that is no JSON or that
\* parses without a usable prompt field the directive is the whole raw string,
\* no transparency and no progress caption, even when the parsed object carries
\* a transparency flag or a caption.
C9_FallbackIsTotal ==
    gPc \notin {"idle", "parse"} =>
        /\ ~gThrown
        /\ gInput \in FallbackRaws =>
               /\ gFinalPrompt = gInput
               /\ ~gTransparent
               /\ gProgress = <<>>
               /\ gFn = "generateImageFromInput" => gMime = "image/jpeg"
               /\ RequestSent =>
                      "transparency" \notin Range(SegmentKinds(gFullPrompt))

\* parsed: an object with a flag and a caption but no prompt, a callback waiting
C9_Witness ==
    /\ gPc = "await"
    /\ gHasOnProgress
    /\ gInput = "{\"transparent_background\":true,\"progression_text\":\"cap\"}"

\* raw prompts that parse with a prompt field and a set transparency flag
FlagRaws ==
    {Stringify(o) : o \in {v \in JsonObjects :
                              v.prompt = "x" /\ v.transparent_background = "true"}}

\* C10 as stated: with a parsed prompt field and the transparency flag set, the
\* request has the transparency instruction in its prompt text and asks for an
\* output format that carries transparency; without the flag neither; for
\* generateScene and generateImageFromInput alike.
C10_InstructionAndFormat ==
    RequestSent =>
        /\ gInput \in FlagRaws =>
               /\ "transparency" \in Range(SegmentKinds(gFullPrompt))
               /\ gRequest.outputMimeType = "image/png"
        /\ gInput \notin FlagRaws =>
               /\ "transparency" \notin Range(SegmentKinds(gFullPrompt))
               /\ gRequest.outputMimeType # "image/png"

\* C10 amended: with a parsed prompt field and the transparency flag set, both
\* functions add the transparency instruction to the prompt text, and
\* generateImageFromInput also asks for image/png; generateScene asks for no
\* output format at all; without the flag neither function does either.
C10_InstructionBothFormatOne ==
    RequestSent =>
        /\ ("transparency" \in Range(SegmentKinds(gFullPrompt)))
               <=> gInput \in FlagRaws
        /\ gRequest.fn = "generateImages" =>
               gRequest.outputMimeType
                   = (IF gInput \in FlagRaws THEN "image/png" ELSE "image/jpeg")
        /\ gRequest.fn = "generateContent" => gRequest.outputMimeType = Null

\* generateImageFromInput asked for a transparent image
C10_Witness ==
    /\ gRequest.fn = "generateImages"
    /\ gInput \in FlagRaws
    /\ gRequest.outputMimeType = "image/png"

(***************************************************************************)
(* Preprocessing claims (SpecImg)                                          *)
(***************************************************************************)
\* C11: what processCharacterImage resolves with is never wider or higher than
\* the maximum edge, for every source size and rotation, the fallback paths
\* that hand back the original image included.
C11_RasterWithinMaxEdge ==
    imgPc = "resolved" =>
        /\ imgResult.width <= MaxSize
        /\ imgResult.height <= MaxSize

\* a scaled dimension is at most the integer n
AtMost(dim, n) == dim.px < n \/ (dim.px = n /\ dim.kind = "int")

Resized == imgPc = "resolved" /\ imgScaled # [width |-> Whole(0), height |-> Whole(0)]

LongerScaled ==
    IF imgWidth >= imgHeight THEN imgScaled.width ELSE imgScaled.height

Abs(x) == IF x < 0 THEN 0 - x ELSE x

\* the parts of C12 that do not depend on how the longer side is rounded: no
\* upscaling, both sides at most maxSize when the source exceeds it, unchanged
\* when it does not, and width : height kept to within one pixel
ResizeShape ==
    LET longerSrc == IF imgWidth >= imgHeight THEN imgWidth ELSE imgHeight
    IN  /\ AtMost(imgScaled.width, imgWidth)
        /\ AtMost(imgScaled.height, imgHeight)
        /\ (imgWidth > MaxSize \/ imgHeight > MaxSize) =>
               /\ AtMost(imgScaled.width, MaxSize)
               /\ AtMost(imgScaled.height, MaxSize)
        /\ (imgWidth <= MaxSize /\ imgHeight <= MaxSize) =>
               /\ imgScaled.width = Whole(imgWidth)
               /\ imgScaled.height = Whole(imgHeight)
        /\ Abs(imgScaled.width.px * imgHeight - imgScaled.height.px * imgWidth)
               <= longerSrc

\* C12 as stated: the resize step never upscales; when the source exceeds
\* maxSize both scaled sides are at most maxSize and the longer one equals
\* maxSize; otherwise the sides are unchanged; width : height is preserved.
C12_LongerEqualsMaxSize ==
    Resized =>
        /\ ResizeShape
        /\ (imgWidth > MaxSize \/ imgHeight > MaxSize) =>
               LongerScaled = Whole(MaxSize)

\* C12 amended: as above, but the longer scaled side is maxSize or the largest
\* double below maxSize (its integer part is then maxSize - 1).
C12_LongerWithinOneStep ==
    Resized =>
        /\ ResizeShape
        /\ (imgWidth > MaxSize \/ imgHeight > MaxSize) =>
               \/ LongerScaled = Whole(MaxSize)
               \/ /\ LongerScaled.px = MaxSize - 1
                  /\ LongerScaled.kind = "below"

\* a 784 x 392 source: 784 * (512 / 784) is rounded to 511.99999999999994
C12_Witness ==
    /\ Resized
    /\ imgWidth = 784
    /\ imgHeight = 392
    /\ imgScaled.width.kind = "below"
    /\ imgScaled.height.px = 255

(***************************************************************************)
(* Failure recovery and sequencing of preprocessing (SpecGen)              *)
(***************************************************************************)
\* C13: a decode failure or a missing drawing context while preprocessing one
\* layer is recovered locally: the loop goes on with exactly what the original
\* image reference yields, nothing is thrown (the caller shows an error only
\* for a throw), the remaining layers follow, and the generation operation is
\* still invoked.
C13_FailureRecoveredLocally ==
    /\ [][\A imageUrl \in ImageUrls, outcome \in {"noContext", "error"} :
             GenFinishProcess(imageUrl, outcome) =>
                 /\ gParts' = gParts \o ImageParts(imageUrl, gCharacters[gIdx],
                                                   RotationOf(gRotations, gCharacters[gIdx].id))
                 /\ gIdx' = gIdx + 1
                 /\ gPc' = "images"
                 /\ gResult' = Null
                 /\ ~gThrown']_vars
    /\ [](gResult = "threw" => RequestSent)
    /\ (gFn = "generateScene" /\ gPc = "images") ~> SceneRequestSent

\* three layers, none of which yielded an image part, and the request went out
C13_Witness ==
    /\ SceneRequestSent
    /\ Len(gCharacters) = 3
    /\ Len(ImagePartsSent) = 0
    /\ gResult = "returned"

\* C16: within one generateScene call the layers are preprocessed one after the
\* other: at most one preprocessing is in flight, it is the one of the first
\* layer not yet finished, and the generation operation is invoked only after
\* every layer has been preprocessed.
C16_SequentialPreprocessing ==
    /\ Cardinality(gInFlight) <= 1
    /\ \A i \in gInFlight : i = gIdx /\ i <= Len(gCharacters)
    /\ Len(SelectSeq(gParts, LAMBDA part : part.kind = "image")) <= gIdx - 1
    /\ SceneRequestSent => gIdx = Len(gCharacters) + 1 /\ gInFlight = {}

\* the second of three layers is being preprocessed
C16_Witness ==
    /\ gInFlight = {2}
    /\ Len(gCharacters) = 3
    /\ gRequest = NoRequest

(***************************************************************************)
(* Composition claims (SpecCompose)                                        *)
(***************************************************************************)
\* C14: when the generation operation of a call completes without image
\* content, the call ends there: generateScene throws, handleGenerate puts up
\* the error (the canvas shows it), the loading flag is cleared, and the
\* generation operation has been invoked exactly once for the call; no call
\* ever invokes it twice.
C14_NoImageIsTerminal ==
    /\ [][\A k \in 1..MaxCalls :
             CallComplete(k, FALSE) =>
                 /\ calls'[k].pc = "done"
                 /\ calls'[k].outcome = "threw"
                 /\ calls'[k].invoked = 1
                 /\ error' = GenerationFailed
                 /\ ~isLoading'
                 /\ CanvasShows(isLoading', error', generatedContent',
                                selectedCharacters') = "error"
                 /\ generatedContent' = generatedContent]_vars
    /\ [](\A k \in DOMAIN calls :
             /\ calls[k].invoked <= 1
             /\ calls[k].pc = "done" => calls[k].invoked = 1)

\* a call ended without an image and its error is on display
C14_Witness ==
    /\ Len(calls) = 1
    /\ calls[1].outcome = "threw"
    /\ error = GenerationFailed
    /\ ~isLoading

ExpectedParts(call) ==
    LET d == ParseDirective(call.scenePrompt, FALSE)
    IN  [i \in 1..(Len(call.characters) + 1) |->
            IF i <= Len(call.characters)
            THEN [kind |-> "image", mimeType |-> "image/png", data |-> "CANVAS",
                  char |-> call.characters[i].id,
                  rotation |-> RotationOf(call.rotations, call.characters[i].id)]
            ELSE [kind |-> "text",
                  text |-> PromptText(FullPrompt(call.characters, d.text,
                                                 d.transparent))]]

C18_NewerRequestWins ==
    [][\A k \in 1..MaxCalls :
          (/\ CallComplete(k, TRUE)
           /\ Len(calls) = 2
           /\ calls[1].pc = "await" \/ calls[2].pc = "await"
           /\ calls'[1].outcome = "returned"
           /\ calls'[2].outcome = "returned")
          => generatedContent' = ContentOf(2)]_vars

(***************************************************************************)
(* Scene claims (SpecRoundTrip, SpecScene)                                 *)
(***************************************************************************)
\* a save stores the live values, and nothing but a save changes a stored scene
SceneKeepsSaveTimeValues ==
    /\ [][\A newId \in SceneIds :
             ConfirmSave("n1", newId, 1, MaxScenes) =>
                 LET sc == CHOOSE x \in Range(scenes') : x.id = currentSceneId'
                 IN  /\ sc.characterIds = selectedCharacterIds
                     /\ sc.rotations = characterRotations
                     /\ sc.positions = characterPositions
                     /\ sc.prompt = scenePrompt]_vars
    /\ [][(\A newId \in SceneIds : ~ConfirmSave("n1", newId, 1, MaxScenes))
             => scenes' = scenes]_vars

HoldsLiveValues(sc) ==
    /\ sc.characterIds = selectedCharacterIds
    /\ sc.prompt = scenePrompt
    /\ sc.rotations = characterRotations
    /\ sc.positions = characterPositions

\* a save that rewrites the current scene's record where it is
UpdatesInPlace ==
    /\ Len(scenes') = Len(scenes)
    /\ currentSceneId' = currentSceneId
    /\ \A i \in DOMAIN scenes :
           IF scenes[i].id = currentSceneId
           THEN /\ scenes'[i].id = scenes[i].id
                /\ scenes'[i].name = scenes[i].name
                /\ scenes'[i].createdAt = scenes[i].createdAt
                /\ HoldsLiveValues(scenes'[i])
           ELSE scenes'[i] = scenes[i]

\* a save that puts a new record in front of the others and makes it current
CreatesRecord(name, newId, now) ==
    /\ Len(scenes') = Len(scenes) + 1
    /\ Tail(scenes') = scenes
    /\ scenes'[1].id = newId
    /\ newId \notin SceneIdsInUse
    /\ scenes'[1].name = name
    /\ scenes'[1].createdAt = now
    /\ HoldsLiveValues(scenes'[1])
    /\ currentSceneId' = newId

\* C20 as stated: a save while the current scene is in the list rewrites that
\* record (same id, createdAt and list position, live values, same number of
\* scenes); only a save with no current scene creates a record.
C20_ResaveAlwaysUpdates ==
    [][\A name \in SceneNames, newId \in SavedSceneIds, now \in Times :
          ConfirmSave(name, newId, now, MaxSavedScenes) =>
              IF currentSceneId \in SceneIdsInUse
              THEN UpdatesInPlace
              ELSE CreatesRecord(name, newId, now) /\ currentSceneId = Null]_vars

\* C20 amended: a save while the current scene is in the list and under that
\* scene's name rewrites the record (same id, name, createdAt and list position,
\* live values, same number of scenes, other records untouched); every other
\* save (no current scene, or another name) puts a new record in front and
\* makes it the current scene.
C20_ResaveSameNameUpdates ==
    [][\A name \in SceneNames, newId \in SavedSceneIds, now \in Times :
          ConfirmSave(name, newId, now, MaxSavedScenes) =>
              IF /\ currentSceneId \in SceneIdsInUse
                 /\ SceneById(currentSceneId).name = name
              THEN UpdatesInPlace
              ELSE CreatesRecord(name, newId, now)]_vars

\* the last step was a save that rewrote the older of two scenes, created at
\* time 1, with an edited prompt
C20_Witness ==
    /\ lastOp = "saveScene"
    /\ Len(scenes) = 2
    /\ currentSceneId = scenes[2].id
    /\ scenes[2].createdAt = 1
    /\ scenes[1].createdAt = 2
    /\ scenes[2].prompt = "p1"
    /\ scenes[1].prompt = DefaultPrompt
    /\ "a" \in DOMAIN scenes[2].rotations

(***************************************************************************)
(* Loading indicator (SpecCompose)                                         *)
(***************************************************************************)
\* the handleGenerate invocations that have not reached their finally block
InFlight == {k \in DOMAIN calls : calls[k].pc # "done"}

\* C27: the loading indicator reflects in-flight work: isLoading is true
\* whenever at least one generation request is in flight, overlapping requests
\* included, and false once none is.
C27_LoadingWhileInFlight == isLoading <=> InFlight # {}

(***************************************************************************)
(* Progress caption (SpecCaption)                                          *)
(***************************************************************************)
\* the text part of the request of a call
TextSent(call) == call.request.parts[Len(call.request.parts)].text

\* C26: when the scene prompt parses as structured data with a prompt field and
\* a progress caption, a requested scene generation passes that caption to the
\* progress callback, and the prompt text it sends is the one the same
\* directive without the caption yields.
C26_CaptionSurfaced ==
    \A k \in DOMAIN calls :
        LET json == JsonParse(calls[k].scenePrompt)
        IN  (/\ json.kind = "object"
             /\ Truthy(Prop(json, "prompt"))
             /\ Truthy(Prop(json, "progression_text")))
            => /\ calls[k].progress = <<Prop(json, "progression_text")>>
               /\ calls[k].request.fn = "generateContent" =>
                      TextSent(calls[k])
                          = PromptText(FullPrompt(
                                calls[k].characters,
                                ParseDirective(
                                    Stringify([json EXCEPT !.progression_text = Absent]),
                                    FALSE).text,
                                Truthy(Prop(json, "transparent_background"))))

(***************************************************************************)
(* Layer list claims (SpecLayers)                                          *)
(***************************************************************************)
\* the ids of s other than id, in the order s has them
Without(s, id) == Filter(s, Range(s) \ {id})

\* C23: for a dragged id d and a distinct drop target t, both in the layer
\* list, after the drop d is at the back-to-front index t had before it, all
\* other ids keep their relative order, and the sequence is the one that
\* splicing d out and back in at t's index on the back-to-front sequence gives.
C23_DropOnCanonicalSequence ==
    [][\A d \in LayerIds, t \in LayerIds :
          (/\ LayerManagerDrop(d, t)
           /\ d # t
           /\ d \in Range(selectedCharacterIds)
           /\ t \in Range(selectedCharacterIds))
          => LET before == selectedCharacterIds
                 after == selectedCharacterIds'
             IN  /\ Len(after) = Len(before)
                 /\ after[FindIndex(before, t)] = d
                 /\ Without(after, d) = Without(before, d)
                 /\ after = SpliceIn(SpliceOut(before, FindIndex(before, d)),
                                     FindIndex(before, t), d)
                 /\ lastOp' = "drop"]_vars

\* the last step dropped a layer of four: d, selected last, is now at the back
C23_Witness ==
    /\ lastOp = "drop"
    /\ selectedCharacterIds = <<"d", "a", "b", "c">>

\* C24: a drop of a layer onto itself, a drop with no drag in progress and a
\* drop with an id that is not in the list do not call onReorder and leave the
\* layer order as it is.
C24_SelfDropIsNoOp ==
    [][\A d \in LayerIds \cup {Null}, t \in LayerIds :
          (/\ LayerManagerDrop(d, t)
           /\ \/ d = t
              \/ d = Null
              \/ d \notin Range(selectedCharacterIds)
              \/ t \notin Range(selectedCharacterIds))
          => /\ selectedCharacterIds' = selectedCharacterIds
             /\ lastOp' = "dropIgnored"]_vars

\* the last step was a drop that was ignored, on a list of three layers
C24_Witness ==
    /\ lastOp = "dropIgnored"
    /\ Len(selectedCharacterIds) = 3

\* C25: selecting a character that is not in the layer order appends its id at
\* the end of the sequence and leaves the ids before it as they were; selecting
\* one that is in the layer order deletes exactly that id and leaves the others
\* in their relative order.
C25_SelectAppendsOrDeletes ==
    [][\A id \in LayerIds :
          HandleCharacterSelect(id) =>
              LET before == selectedCharacterIds
                  after == selectedCharacterIds'
              IN  IF id \notin Range(before)
                  THEN /\ Len(after) = Len(before) + 1
                       /\ after[Len(after)] = id
                       /\ SubSeq(after, 1, Len(before)) = before
                  ELSE /\ Len(after) = Len(before) - 1
                       /\ Range(after) = Range(before) \ {id}
                       /\ \A i, j \in DOMAIN after :
                              i < j => FindIndex(before, after[i])
                                           < FindIndex(before, after[j])]_vars

\* the last step was a select or deselect; b, once on the stage, is no longer
\* in the layer order, and c and d are in it around where b was
C25_Witness ==
    /\ lastOp = "select"
    /\ selectedCharacterIds = <<"a", "c", "d">>
    /\ "b" \in DOMAIN characterPositions

(***************************************************************************)
(* Frame of the transform updates (SpecXf)                                 *)
(***************************************************************************)
\* the map after differs from the map before at most in the entry of id
OnlyEntryChanged(before, after, id) ==
    /\ DOMAIN after = (DOMAIN before) \cup {id}
    /\ \A k \in (DOMAIN before) \ {id} : after[k] = before[k]

\* a position update changes the position entry of its id and nothing else of
\* the transforms or the layer order; a rotation update likewise
TransformUpdatesAreLocal ==
    /\ [][\A id \in Ids, pos \in PosVals :
             OnPositionChange(id, pos) =>
                 /\ OnlyEntryChanged(characterPositions, characterPositions', id)
                 /\ characterPositions'[id] = pos
                 /\ characterRotations' = characterRotations
                 /\ selectedCharacterIds' = selectedCharacterIds]_vars
    /\ [][\A id \in Ids, rot \in RotVals :
             OnRotationChange(id, rot) =>
                 /\ OnlyEntryChanged(characterRotations, characterRotations', id)
                 /\ characterRotations'[id] = rot
                 /\ characterPositions' = characterPositions
                 /\ selectedCharacterIds' = selectedCharacterIds]_vars

\* no reorder step changes a transform map (stated as: the maps are unchanged,
\* or the step is not a reorder)
ReorderKeepsTransforms ==
    [][\/ /\ characterRotations' = characterRotations
          /\ characterPositions' = characterPositions
       \/ ~\E dragged \in Ids \cup {Null}, target \in Ids : HandleDrop(dragged, target)]_vars

\* C30 as stated: a position or rotation update for one id changes only that
\* id's entry in the corresponding map and leaves the other map and the layer
\* order alone; select / deselect and reorder leave both maps unchanged.
C30_SelectKeepsTransforms ==
    /\ TransformUpdatesAreLocal
    /\ ReorderKeepsTransforms
    /\ [][(\E id \in Ids : HandleCharacterSelect(id))
             => /\ characterRotations' = characterRotations
                /\ characterPositions' = characterPositions]_vars

\* C30 amended: as above for the updates and for reorder; select / deselect
\* leave the rotations unchanged and every existing position entry as it is,
\* and may add the centred default position for ids of the new layer order
\* that had no position.
C30_SelectAddsDefaultsOnly ==
    /\ TransformUpdatesAreLocal
    /\ ReorderKeepsTransforms
    /\ [][(\E id \in Ids : HandleCharacterSelect(id))
             => /\ characterRotations' = characterRotations
                /\ \A k \in DOMAIN characterPositions :
                       /\ k \in DOMAIN characterPositions'
                       /\ characterPositions'[k] = characterPositions[k]
                /\ \A k \in (DOMAIN characterPositions') \ (DOMAIN characterPositions) :
                       /\ characterPositions'[k] = Center
                       /\ k \in Range(selectedCharacterIds')]_vars

\* a was moved and b rotated; b still has its centred position, a has no
\* rotation entry, and c was given the default when it was selected
C30_Witness ==
    /\ selectedCharacterIds = <<"b", "a", "c">>
    /\ DOMAIN characterPositions = {"a", "b", "c"}
    /\ characterPositions["a"] = Moved
    /\ characterPositions["b"] = Center
    /\ characterPositions["c"] = Center
    /\ DOMAIN characterRotations = {"b"}

(***************************************************************************)
(* Library import (SpecImport)                                             *)
(***************************************************************************)
\* the record of the last occurrence of id in an imported array
LastOf(newCharacters, id) ==
    LET at == CHOOSE i \in DOMAIN newCharacters :
                  /\ newCharacters[i].id = id
                  /\ \A j \in (i + 1)..Len(newCharacters) : newCharacters[j].id # id
    IN  newCharacters[at]

\* C22: after any sequence of single-character imports and library imports (an
\* array that repeats an id included) no two characters of the library share an
\* id; importing an id that is present replaces the record at its index and
\* leaves the length of the library unchanged.
C22_ImportDeduplicates ==
    /\ [](NoDup(IdsOf(characters)))
    /\ [][\A k \in 1..MaxImports, character \in ImportCharacters :
             (HandleImportCharacter(k, character) /\ character.id \in LibraryIds)
             => /\ Len(characters') = Len(characters)
                /\ IdsOf(characters') = IdsOf(characters)
                /\ \A i \in DOMAIN characters :
                       characters'[i] = IF characters[i].id = character.id
                                        THEN character ELSE characters[i]]_vars
    /\ [][\A k \in 1..MaxImports, newCharacters \in ImportLibraries :
             HandleImportLibrary(k, newCharacters)
             => /\ SubSeq(IdsOf(characters'), 1, Len(characters)) = IdsOf(characters)
                /\ LibraryIds' = LibraryIds \cup Range(IdsOf(newCharacters))
                /\ \A i \in DOMAIN characters' :
                       characters'[i] =
                           IF characters'[i].id \in Range(IdsOf(newCharacters))
                           THEN LastOf(newCharacters, characters'[i].id)
                           ELSE characters[i]]_vars

(***************************************************************************)
(* Saved scenes and the live state (SpecSceneFrame)                        *)
(***************************************************************************)
\* C21: a saved scene is independent of the live editing state: after a scene
\* is saved or loaded, no select / deselect, reorder, move, rotate, prompt edit
\* or reset changes any saved scene record; the records change only through
\* save, import or delete of a scene.
C21_ScenesIndependentOfEditing ==
    /\ [][SceneEdit => scenes' = scenes]_vars
    /\ [][scenes' # scenes
             => lastOp' \in {"saveScene", "importScene", "deleteScene"}]_vars

\* the live state has moved away from the record of the current scene in its
\* layer order, rotation, position and prompt, and the record is as it was saved
C21_Witness ==
    /\ currentSceneId \in SceneIdsInUse
    /\ LET sc == SceneById(currentSceneId)
       IN  /\ sc.characterIds = <<"a", "b">>
           /\ selectedCharacterIds = <<"b", "a">>
           /\ sc.rotations = EmptyMap
           /\ "a" \in DOMAIN characterRotations
           /\ DOMAIN sc.positions = {"a", "b"}
           /\ sc.positions["a"] = Center
           /\ DOMAIN characterPositions = {"a", "b"}
           /\ characterPositions["a"] = Moved
           /\ sc.prompt = DefaultPrompt
           /\ scenePrompt = "p1"

\* C29: in every state reachable by save, load, import, delete and reset of
\* scenes, currentSceneId is null or the id of a scene in the saved scenes
\* list; deleting the current scene sets it to null.
C29_CurrentSceneExists ==
    /\ [](currentSceneId = Null \/ currentSceneId \in SceneIdsInUse)
    /\ [][\A id \in SceneIds :
             (HandleDeleteScene(id) /\ id = currentSceneId)
             => currentSceneId' = Null]_vars

\* the current scene has just been deleted while its layers are still on the
\* stage
C29_Witness ==
    /\ lastOp = "deleteScene"
    /\ currentSceneId = Null
    /\ scenes = <<>>
    /\ selectedCharacterIds = <<"a", "b">>

(***************************************************************************)
(* Gesture of a character on the stage (SpecGesture)                       *)
(***************************************************************************)
\* C28: the gesture of a TransformableCharacter is always exactly one of Idle,
\* Dragging or Rotating: isDragging and isRotating are never both true under
\* any sequence of presses on the body, presses on the rotate handle, moves and
\* releases; a release always returns to Idle, and a move in Idle changes
\* neither position nor rotation.
C28_GestureIsOneOfThree ==
    /\ [](\A id \in DOMAIN gestures :
             ~(gestures[id].isDragging /\ gestures[id].isRotating))
    /\ [][(\E button \in Buttons, overStage \in BOOLEAN : MouseUp(button, overStage))
             => \A id \in DOMAIN gestures : gestures'[id] = GestureIdle]_vars
    /\ [][\A id \in DOMAIN gestures :
             gestures[id] = GestureIdle
             => /\ characterPositions'[id] = characterPositions[id]
                /\ (id \in DOMAIN characterRotations')
                       = (id \in DOMAIN characterRotations)
                /\ id \in DOMAIN characterRotations =>
                       characterRotations'[id] = characterRotations[id]]_vars

====
